---- MODULE Spec2Model ----
(***************************************************************************)
(* External Data Integration Layer of bseb-backend: BsebBaseService        *)
(* (retry policy, cache helpers, error normalizer), FormDataService and    *)
(* the two AdmitCardService variants (POST to the admit-card endpoint, GET *)
(* on the form-data endpoint), over a Redis store with per-key TTL and an  *)
(* unreliable upstream HTTP API.                                           *)
(***************************************************************************)
EXTENDS Integers, Sequences, FiniteSets, TLC

(***************************************************************************)
(* JavaScript values.  Every value carries its type tag; an object is a    *)
(* function from its own property names to values, an array a sequence.    *)
(***************************************************************************)
Undef == [t |-> "undefined"]
Null == [t |-> "null"]
Str(s) == [t |-> "string", v |-> s]
Bool(b) == [t |-> "boolean", v |-> b]
Obj(f) == [t |-> "object", v |-> f]
Arr(s) == [t |-> "array", v |-> s]
EmptyObj == Obj(<<>>)

\* ToBoolean(v): the test of `if (v)`, `!v`, `a || b`, `a && b`.
Truthy(v) ==
  CASE v.t = "undefined" -> FALSE
    [] v.t = "null" -> FALSE
    [] v.t = "string" -> v.v # ""
    [] v.t = "boolean" -> v.v
    [] OTHER -> TRUE

Nullish(v) == v.t \in {"undefined", "null"}

\* o[k] / o.k on a value that is not null or undefined (on those it throws).
Read(o, k) == IF o.t = "object" /\ k \in DOMAIN o.v THEN o.v[k] ELSE Undef

\* a || b
OrElse(a, b) == IF Truthy(a) THEN a ELSE b

\* a ?? b
Coalesce(a, b) == IF Nullish(a) THEN b ELSE a

(***************************************************************************)
(* JSON.  A JSON text is modelled by the value it denotes: stringify drops *)
(* the properties whose value is undefined and writes null for an          *)
(* undefined array element; parse returns the denoted value.               *)
(***************************************************************************)
RECURSIVE JsonValue(_)
JsonValue(v) ==
  CASE v.t = "object" ->
         Obj([k \in {j \in DOMAIN v.v : v.v[j].t # "undefined"} |-> JsonValue(v.v[k])])
    [] v.t = "array" ->
         Arr([i \in DOMAIN v.v |-> IF v.v[i].t = "undefined" THEN Null ELSE JsonValue(v.v[i])])
    [] OTHER -> v

JsonStringify(v) == [json |-> JsonValue(v)]

JsonParse(s) == s.json

\* Two values answer every property read alike (a property holding undefined
\* and a missing property read the same).
RECURSIVE SameData(_, _)
SameData(a, b) ==
  /\ a.t = b.t
  /\ CASE a.t = "object" ->
            \A k \in (DOMAIN a.v) \cup (DOMAIN b.v) : SameData(Read(a, k), Read(b, k))
       [] a.t = "array" ->
            /\ Len(a.v) = Len(b.v)
            /\ \A i \in DOMAIN a.v : SameData(a.v[i], b.v[i])
       [] OTHER -> a = b

(***************************************************************************)
(* BsebApiConfig                                                           *)
(***************************************************************************)
retryAttempts == 2
retryDelay == 1000
formDataCacheTtl == 86400
admitCardCacheTtl == 3600
formDataCachePrefix == "bseb:form"
admitCardCachePrefix == "bseb:admitcard"

\* AdmitCardType
THEORY == "theory"
PRACTICAL == "practical"

(***************************************************************************)
(* Response transformers                                                   *)
(***************************************************************************)
\* Variant of getFieldValue that tests `if (obj[key])`.
RECURSIVE getFieldValueTruthy(_, _)
getFieldValueTruthy(obj, keys) ==
  IF keys = <<>> THEN Undef
  ELSE IF Truthy(Read(obj, Head(keys))) THEN Read(obj, Head(keys))
  ELSE getFieldValueTruthy(obj, Tail(keys))

\* Variant of getFieldValue that returns '' when no key holds a value.
RECURSIVE getFieldValueOrBlank(_, _)
getFieldValueOrBlank(obj, keys) ==
  IF keys = <<>> THEN Str("")
  ELSE IF ~Nullish(Read(obj, Head(keys))) THEN Read(obj, Head(keys))
  ELSE getFieldValueOrBlank(obj, Tail(keys))

\* BsebBaseService.getFieldValue(obj, ...keys): the first key whose value is
\* neither undefined nor null.
RECURSIVE getFieldValue(_, _)
getFieldValue(obj, keys) ==
  IF keys = <<>> THEN Undef
  ELSE IF ~Nullish(Read(obj, Head(keys))) THEN Read(obj, Head(keys))
  ELSE getFieldValue(obj, Tail(keys))

\* FormDataService.transformAddress
transformAddress(rawAddress) ==
  IF ~Truthy(rawAddress) THEN Undef
  ELSE Obj([city |-> Read(rawAddress, "city"),
            address |-> Read(rawAddress, "address"),
            pincode |-> Read(rawAddress, "pincode"),
            district |-> Read(rawAddress, "district"),
            state |-> Read(rawAddress, "state")])

\* Variant of transformSubject with || in place of ??.
transformSubjectOrDefault(rawSubject) ==
  IF ~Truthy(rawSubject) THEN Undef
  ELSE Obj([name |-> Read(rawSubject, "name"),
            code |-> Read(rawSubject, "code"),
            isChecked |-> OrElse(Read(rawSubject, "is_checked"), Bool(FALSE)),
            readonly |-> OrElse(Read(rawSubject, "readonly"), Bool(TRUE))])

\* FormDataService.transformSubject
transformSubject(rawSubject) ==
  IF ~Truthy(rawSubject) THEN Undef
  ELSE Obj([name |-> Read(rawSubject, "name"),
            code |-> Read(rawSubject, "code"),
            isChecked |-> Coalesce(Read(rawSubject, "is_checked"), Bool(FALSE)),
            readonly |-> Coalesce(Read(rawSubject, "readonly"), Bool(TRUE))])

\* FormDataService.transformSubjects
transformSubjects(rawSubjects) ==
  IF ~Truthy(rawSubjects) THEN Undef
  ELSE Obj([mil |-> transformSubject(Read(rawSubjects, "mil")),
            sil |-> transformSubject(Read(rawSubjects, "sil")),
            optional |-> transformSubject(Read(rawSubjects, "optional")),
            vocational |-> transformSubject(Read(rawSubjects, "vocational")),
            compulsory1 |-> transformSubject(Read(rawSubjects, "compulsory_1")),
            compulsory2 |-> transformSubject(Read(rawSubjects, "compulsory_2")),
            compulsory3 |-> transformSubject(Read(rawSubjects, "compulsory_3")),
            compulsory4 |-> transformSubject(Read(rawSubjects, "compulsory_4"))])

\* Variant of FormDataService.transformResponse that does not keep the raw record.
formTransformResponseNoRaw(raw) ==
  Obj([schoolCode |-> Read(raw, "school_code"),
       schoolName |-> Read(raw, "school_name"),
       registrationNumber |-> Read(raw, "reg_no"),
       applicationNumber |-> Read(raw, "application_no"),
       name |-> Read(raw, "name"),
       fatherName |-> Read(raw, "father_name"),
       motherName |-> Read(raw, "mother_name"),
       dateOfBirth |-> Read(raw, "dob"),
       gender |-> Read(raw, "gender"),
       caste |-> Read(raw, "caste"),
       category |-> Read(raw, "category"),
       religion |-> Read(raw, "religion"),
       nationality |-> Read(raw, "nationality"),
       area |-> Read(raw, "area"),
       isDifferentlyAbled |-> Read(raw, "is_differently_abled"),
       isVisuallyImpaired |-> Read(raw, "is_visually_impaired"),
       maritalStatus |-> Read(raw, "marital_status"),
       medium |-> Read(raw, "medium"),
       mobile |-> Read(raw, "mobile"),
       email |-> Read(raw, "email"),
       address |-> transformAddress(Read(raw, "address")),
       subjects |-> transformSubjects(Read(raw, "subjects")),
       photoUrl |-> Read(raw, "photo"),
       signatureUrl |-> Read(raw, "sign"),
       rawData |-> Undef])

\* FormDataService.transformResponse
formTransformResponse(raw) ==
  Obj([schoolCode |-> Read(raw, "school_code"),
       schoolName |-> Read(raw, "school_name"),
       registrationNumber |-> Read(raw, "reg_no"),
       applicationNumber |-> Read(raw, "application_no"),
       name |-> Read(raw, "name"),
       fatherName |-> Read(raw, "father_name"),
       motherName |-> Read(raw, "mother_name"),
       dateOfBirth |-> Read(raw, "dob"),
       gender |-> Read(raw, "gender"),
       caste |-> Read(raw, "caste"),
       category |-> Read(raw, "category"),
       religion |-> Read(raw, "religion"),
       nationality |-> Read(raw, "nationality"),
       area |-> Read(raw, "area"),
       isDifferentlyAbled |-> Read(raw, "is_differently_abled"),
       isVisuallyImpaired |-> Read(raw, "is_visually_impaired"),
       maritalStatus |-> Read(raw, "marital_status"),
       medium |-> Read(raw, "medium"),
       mobile |-> Read(raw, "mobile"),
       email |-> Read(raw, "email"),
       address |-> transformAddress(Read(raw, "address")),
       subjects |-> transformSubjects(Read(raw, "subjects")),
       photoUrl |-> Read(raw, "photo"),
       signatureUrl |-> Read(raw, "sign"),
       rawData |-> raw])

\* AdmitCardService.transformResponse (POST variant): the per-subject mapper.
postSubject(s) ==
  Obj([subjectName |-> getFieldValue(s, <<"SubjectName", "subjectName">>),
       subjectCode |-> getFieldValue(s, <<"SubjectCode", "subjectCode">>),
       subjectGroup |-> getFieldValue(s, <<"SubjectGroup", "subjectGroup">>),
       examDate |-> getFieldValue(s, <<"ExamDate", "examDate">>),
       examTime |-> getFieldValue(s, <<"ExamTime", "examTime">>),
       examShift |-> getFieldValue(s, <<"ExamShift", "examShift">>)])

\* AdmitCardService.transformResponse (POST variant) raises a TypeError when it
\* reads a property of null or undefined: the body itself, or an element of
\* the subject array handed to getFieldValue.
postTransformThrows(rawData) ==
  \/ Nullish(rawData)
  \/ LET subjectDetails ==
           OrElse(OrElse(Read(rawData, "SubjectDetails"), Read(rawData, "subjectDetails")),
                  Arr(<<>>))
     IN /\ subjectDetails.t = "array"
        /\ \E i \in DOMAIN subjectDetails.v : Nullish(subjectDetails.v[i])

\* AdmitCardService.transformResponse (POST variant)
postTransformResponse(rawData) ==
  LET studentDetails ==
        OrElse(OrElse(Read(rawData, "StudentDetails"), Read(rawData, "studentDetails")),
               EmptyObj)
      subjectDetails ==
        OrElse(OrElse(Read(rawData, "SubjectDetails"), Read(rawData, "subjectDetails")),
               Arr(<<>>))
  IN Obj([studentDetails |->
            Obj([studentName |-> getFieldValue(studentDetails, <<"StudentName", "studentName">>),
                 fatherName |-> getFieldValue(studentDetails, <<"FatherName", "fatherName">>),
                 motherName |-> getFieldValue(studentDetails, <<"MotherName", "motherName">>),
                 dateOfBirth |-> getFieldValue(studentDetails, <<"DateOfBirth", "dateOfBirth">>),
                 gender |-> getFieldValue(studentDetails, <<"Gender", "gender">>),
                 registrationNumber |->
                   getFieldValue(studentDetails, <<"RegistrationNumber", "registrationNumber">>),
                 rollCode |->
                   getFieldValue(studentDetails, <<"Rollcode", "RollCode", "rollcode", "rollCode">>),
                 rollNumber |-> getFieldValue(studentDetails, <<"RollNumber", "rollNumber">>),
                 schoolName |-> getFieldValue(studentDetails, <<"SchoolName", "schoolName">>),
                 schoolCode |-> getFieldValue(studentDetails, <<"SchoolCode", "schoolCode">>),
                 casteCategory |-> getFieldValue(studentDetails, <<"casteCategory", "CasteCategory">>),
                 religion |-> getFieldValue(studentDetails, <<"Religion", "religion">>),
                 examType |-> getFieldValue(studentDetails, <<"ExamType", "examType">>),
                 examCenterName |-> getFieldValue(studentDetails, <<"ExamCenterName", "examCenterName">>),
                 examCenterCode |-> getFieldValue(studentDetails, <<"ExamCenterCode", "examCenterCode">>)]),
          subjectDetails |->
            IF subjectDetails.t = "array"
            THEN Arr([i \in DOMAIN subjectDetails.v |-> postSubject(subjectDetails.v[i])])
            ELSE Arr(<<>>)])

\* AdmitCardService.transformResponse (GET variant): the subject slots, in order.
subjectKeys ==
  <<"mil", "sil", "compulsory_1", "compulsory_2", "compulsory_3", "compulsory_4",
    "optional", "vocational">>

\* key.replace('_', ' ') on the slot names above.
replaceUnderscore(key) ==
  CASE key = "compulsory_1" -> "compulsory 1"
    [] key = "compulsory_2" -> "compulsory 2"
    [] key = "compulsory_3" -> "compulsory 3"
    [] key = "compulsory_4" -> "compulsory 4"
    [] OTHER -> key

\* Variant of the loop that takes every slot that is present, named or not.
getSubjectListUnnamed(subjects) ==
  LET present(key) == Truthy(Read(subjects, key))
      kept == SelectSeq(subjectKeys, present)
  IN [i \in DOMAIN kept |->
        Obj([subjectName |-> Read(Read(subjects, kept[i]), "name"),
             subjectCode |-> OrElse(Read(Read(subjects, kept[i]), "code"), Str("")),
             subjectGroup |-> Str(replaceUnderscore(kept[i])),
             examDate |-> Str(""),
             examTime |-> Str(""),
             examShift |-> Str("")])]

\* AdmitCardService.transformResponse (GET variant): the loop that builds subjectList.
getSubjectList(subjects) ==
  LET present(key) == Truthy(Read(subjects, key)) /\ Truthy(Read(Read(subjects, key), "name"))
      kept == SelectSeq(subjectKeys, present)
  IN [i \in DOMAIN kept |->
        Obj([subjectName |-> Read(Read(subjects, kept[i]), "name"),
             subjectCode |-> OrElse(Read(Read(subjects, kept[i]), "code"), Str("")),
             subjectGroup |-> Str(replaceUnderscore(kept[i])),
             examDate |-> Str(""),
             examTime |-> Str(""),
             examShift |-> Str("")])]

\* AdmitCardService.transformResponse (GET variant)
getTransformResponse(rawData, type) ==
  LET subjects == OrElse(Read(rawData, "subjects"), EmptyObj)
  IN Obj([studentDetails |->
            Obj([studentName |-> OrElse(Read(rawData, "name"), Str("")),
                 fatherName |-> OrElse(Read(rawData, "father_name"), Str("")),
                 motherName |-> OrElse(Read(rawData, "mother_name"), Str("")),
                 dateOfBirth |-> OrElse(Read(rawData, "dob"), Str("")),
                 gender |-> OrElse(Read(rawData, "gender"), Str("")),
                 registrationNumber |-> OrElse(Read(rawData, "reg_no"), Str("")),
                 rollCode |-> OrElse(Read(rawData, "roll_code"), Str("")),
                 rollNumber |-> OrElse(Read(rawData, "roll_no"), Str("")),
                 schoolName |-> OrElse(Read(rawData, "school_name"), Str("")),
                 schoolCode |-> OrElse(Read(rawData, "school_code"), Str("")),
                 casteCategory |-> OrElse(Read(rawData, "category"), Str("")),
                 religion |-> OrElse(Read(rawData, "religion"), Str("")),
                 examType |-> Str(IF type = THEORY THEN "Theory" ELSE "Practical"),
                 examCenterName |->
                   OrElse(OrElse(Read(rawData, "exam_center_name"), Read(rawData, "school_name")),
                          Str("")),
                 examCenterCode |->
                   OrElse(OrElse(Read(rawData, "exam_center_code"), Read(rawData, "school_code")),
                          Str(""))]),
          subjectDetails |-> Arr(getSubjectList(subjects)),
          photoUrl |-> OrElse(Read(rawData, "photo"), Str(""))])

(***************************************************************************)
(* Errors, the error normalizer and the envelopes                          *)
(***************************************************************************)
\* An error thrown by a request or by the code after it: an AxiosError with a
\* response (status, body), an AxiosError without one (code), or another Error.
HttpError(status, body) ==
  [isAxios |-> TRUE, hasResponse |-> TRUE, status |-> status, body |-> body, code |-> "ERR_BAD_RESPONSE"]
NetworkError(code) ==
  [isAxios |-> TRUE, hasResponse |-> FALSE, status |-> 0, body |-> Undef, code |-> code]
TypeError ==
  [isAxios |-> FALSE, hasResponse |-> FALSE, status |-> 0, body |-> Undef, code |-> "TypeError"]
NoError ==
  [isAxios |-> FALSE, hasResponse |-> FALSE, status |-> 0, body |-> Undef, code |-> ""]

\* new Date().toISOString(): the clock is not modelled.
Timestamp == "toISOString"

\* responseData?.message
OptionalMessage(responseData) ==
  IF Nullish(responseData) THEN Undef ELSE Read(responseData, "message")

\* Variant of the normalizer's envelope without its errorCode.
ErrorResponseNoCode(message, errorCode) ==
  [success |-> FALSE, message |-> message, timestamp |-> Timestamp]

\* The envelope handleApiError returns.
ErrorResponse(message, errorCode) ==
  [success |-> FALSE, message |-> message, errorCode |-> errorCode, timestamp |-> Timestamp]

\* Variant of handleApiError whose server-error test is `status > 500`.
handleApiErrorAbove500(error, context) ==
  IF error.isAxios /\ error.hasResponse THEN
    CASE error.status = 404 ->
           ErrorResponse(OrElse(OptionalMessage(error.body),
                                Str("No record found for the given details.")), "NOT_FOUND")
      [] error.status = 400 ->
           ErrorResponse(OrElse(OptionalMessage(error.body),
                                Str("Invalid request parameters.")), "BAD_REQUEST")
      [] error.status \in {401, 403} ->
           ErrorResponse(Str("Access denied to BSEB services."), "UNAUTHORIZED")
      [] error.status > 500 ->
           ErrorResponse(Str("BSEB server error. Please try again later."), "SERVER_ERROR")
      [] OTHER ->
           ErrorResponse(OrElse(OptionalMessage(error.body),
                                Str("Failed to fetch " \o context \o ".")), "API_ERROR")
  ELSE IF error.isAxios /\ error.code = "ECONNABORTED" THEN
    ErrorResponse(Str("Request timed out. Please try again."), "TIMEOUT")
  ELSE IF error.isAxios /\ error.code \in {"ENOTFOUND", "ECONNREFUSED"} THEN
    ErrorResponse(Str("BSEB server is currently unavailable. Please try again later."),
                  "UNAVAILABLE")
  ELSE
    ErrorResponse(Str("An unexpected error occurred. Please try again."), "UNKNOWN_ERROR")

\* BsebBaseService.handleApiError
handleApiError(error, context) ==
  IF error.isAxios /\ error.hasResponse THEN
    CASE error.status = 404 ->
           ErrorResponse(OrElse(OptionalMessage(error.body),
                                Str("No record found for the given details.")), "NOT_FOUND")
      [] error.status = 400 ->
           ErrorResponse(OrElse(OptionalMessage(error.body),
                                Str("Invalid request parameters.")), "BAD_REQUEST")
      [] error.status \in {401, 403} ->
           ErrorResponse(Str("Access denied to BSEB services."), "UNAUTHORIZED")
      [] error.status >= 500 ->
           ErrorResponse(Str("BSEB server error. Please try again later."), "SERVER_ERROR")
      [] OTHER ->
           ErrorResponse(OrElse(OptionalMessage(error.body),
                                Str("Failed to fetch " \o context \o ".")), "API_ERROR")
  ELSE IF error.isAxios /\ error.code = "ECONNABORTED" THEN
    ErrorResponse(Str("Request timed out. Please try again."), "TIMEOUT")
  ELSE IF error.isAxios /\ error.code \in {"ENOTFOUND", "ECONNREFUSED"} THEN
    ErrorResponse(Str("BSEB server is currently unavailable. Please try again later."),
                  "UNAVAILABLE")
  ELSE
    ErrorResponse(Str("An unexpected error occurred. Please try again."), "UNKNOWN_ERROR")

\* Variant of createSuccessResponse that ignores its cached argument (the
\* parameter's default).
createSuccessResponseDefaultCached(data, cached) ==
  [success |-> TRUE, data |-> data, cached |-> FALSE, timestamp |-> Timestamp]

\* BsebBaseService.createSuccessResponse
createSuccessResponse(data, cached) ==
  [success |-> TRUE, data |-> data, cached |-> cached, timestamp |-> Timestamp]

\* The envelope of an upstream-reported failure and of a rejected request.
FailureResponse(message) == [success |-> FALSE, message |-> message]

\* Variant of the 4xx test with a strict lower bound.
IsClientErrorAbove400(error) ==
  error.isAxios /\ error.hasResponse /\ error.status > 400 /\ error.status < 500

\* executeWithRetry: the error is an AxiosError whose response status is a 4xx.
IsClientError(error) ==
  error.isAxios /\ error.hasResponse /\ error.status >= 400 /\ error.status < 500

(***************************************************************************)
(* Inputs                                                                  *)
(***************************************************************************)
\* Registration numbers passed to getFormData and to the clearCache methods.
RegistrationNumbers == {"R1", "R2"}

\* Registration numbers whose form data is fetched.
FetchedNumbers == {"R1"}

\* GetAdmitCardRequestDto values: by registration number, and with nothing.
Dto(reg, code, number) == [registrationNumber |-> reg, rollCode |-> code, rollNumber |-> number]
DtoByRegistration == Dto(Str("R1"), Undef, Undef)
DtoEmpty == Dto(Undef, Undef, Undef)
Dtos == {DtoByRegistration, DtoEmpty}
NoDto == DtoEmpty

\* Identifiers passed to AdmitCardService.clearCache.
AdmitIdentifiers == {"R1", "R2"}

\* Bodies of 2xx upstream responses: of the form-data endpoint (used by
\* getFormData and by the GET variant of getAdmitCard) and of the admit-card
\* endpoints (used by the POST variant).
BodyFormA ==
  Obj([success |-> Bool(TRUE),
       data |-> Obj([name |-> Str("A"), reg_no |-> Str("R1"), school_name |-> Str("S"),
                     address |-> Obj([city |-> Str("Patna")]),
                     subjects |-> Obj([mil |-> Obj([name |-> Str("Hindi"), code |-> Str("101"),
                                                   is_checked |-> Bool(TRUE)]),
                                       compulsory_1 |-> Obj([name |-> Str("Math")]),
                                       sil |-> Obj([code |-> Str("105")])])])])
BodyFormB == Obj([success |-> Bool(TRUE), data |-> Obj([name |-> Str("B")])])
BodyRefused == Obj([success |-> Bool(FALSE), message |-> Str("x")])
BodyNoData == Obj([success |-> Bool(TRUE), message |-> Str("")])
BodyAdmitA ==
  Obj([StudentDetails |-> Obj([StudentName |-> Str("A"), studentName |-> Str("B"),
                               rollCode |-> Str("C1"), FatherName |-> Null]),
       SubjectDetails |-> Arr(<<Obj([SubjectName |-> Str("Hindi"), examDate |-> Str("D")])>>)])
FormBodies == {BodyFormA, BodyFormB, BodyRefused, BodyNoData, Null}
BodyAdmitNullSubject == Obj([SubjectDetails |-> Arr(<<Null>>)])
AdmitBodies == {BodyAdmitA, BodyAdmitNullSubject, Null}

\* Further bodies of the admit-card endpoints: an object with neither student
\* nor subject details, and an upstream refusal.
BodyAdmitEmpty == EmptyObj
BodyAdmitRefused == Obj([success |-> Bool(FALSE), message |-> Str("No record found")])
PostBodies == AdmitBodies \cup {BodyAdmitEmpty, BodyAdmitRefused}

\* Failures of one upstream request.
Error404 == HttpError(404, Obj([message |-> Str("upstream says no")]))
Error400 == HttpError(400, Str("<html>"))
Error500 == HttpError(500, Obj([message |-> Str("boom")]))
ErrorTimeout == NetworkError("ECONNABORTED")
RequestErrors == {Error404, Error400, Error500, ErrorTimeout}

(***************************************************************************)
(* State                                                                   *)
(***************************************************************************)
VARIABLES
  variant,   \* which AdmitCardService is deployed: "POST" or "GET"
  cache,     \* the Redis store: key -> [value: JSON text, ttl: seconds]
  calls      \* per caller: the service call in progress or last returned

vars == <<variant, cache, calls>>

\* Callers of the sequential specification, and all callers.
SeqProcs == {1}
AllProcs == {1, 2}

NoEnvelope == [success |-> FALSE]

\* A call record.  pc is the await the call is suspended at ("cacheGet",
\* "request", "delay", "cacheSet", "delete"), "done" once it has returned (env is
\* the returned envelope) and "threw" if it ended by an exception.  attempt,
\* lastError are the variables of executeWithRetry; pending the keys clearCache
\* has still to delete.  The other fields record what happened: errors the
\* failures of the attempts in order, thrown what executeWithRetry threw,
\* delays the backoff waits, httpCalls / cacheCalls the upstream and store
\* calls made, answered / body the 2xx response received, cacheGet / cacheSet
\* / deleted the result of each store call, normalized whether the catch block
\* ran handleApiError, expired whether the entry under cacheKey ran out of TTL
\* since the call began, warnings the retry warnings logged, preClear whether
\* the call had its upstream answer in hand when a clearCache deleted its key,
\* prevKind / prevEnv / prevCalls the caller's previous call.
\* A store entry records, next to what Redis holds (value, ttl), the call that
\* wrote it (origin).

IdleCall ==
  [pc |-> "idle", op |-> "", type |-> "", dto |-> NoDto, identifier |-> "", cacheKey |-> "",
   attempt |-> 0, lastError |-> NoError, delays |-> <<>>, httpCalls |-> 0, cacheCalls |-> 0,
   errors |-> <<>>, thrown |-> NoError, answered |-> FALSE, body |-> Undef, data |-> Undef,
   cacheGet |-> "none", cacheSet |-> "none", pending |-> <<>>, deleted |-> <<>>,
   normalized |-> FALSE, expired |-> FALSE, warnings |-> <<>>, preClear |-> FALSE,
   prevKind |-> "none", prevEnv |-> NoEnvelope, prevCalls |-> 0, env |-> NoEnvelope]

Init ==
  /\ variant \in {"POST", "GET"}
  /\ cache = <<>>
  /\ calls = [p \in AllProcs |-> IdleCall]

(***************************************************************************)
(* Helpers of the actions                                                  *)
(***************************************************************************)
\* `${value}` in a template literal.
ToStr(v) ==
  CASE v.t = "string" -> v.v
    [] v.t = "undefined" -> "undefined"
    [] v.t = "null" -> "null"
    [] OTHER -> "[object Object]"

\* The store without key k.
Without(store, k) == [j \in (DOMAIN store) \ {k} |-> store[j]]

\* The store with key k set.
With(store, k, entry) == [j \in (DOMAIN store) \cup {k} |-> IF j = k THEN entry ELSE store[j]]

\* The caller's previous call c0, as seen from its next call c: a fetch of the
\* same record that missed a working cache, was answered at its first attempt
\* and stored the result, the entry not having expired since ("fetchFresh"),
\* a clearCache of the same service and identifier whose deletions all
\* succeeded ("clearOk") or not ("clearFailed"), or something else.
IsFetch(c) == c.op \in {"getFormData", "getAdmitCard"}
PrevKind(c0, c) ==
  IF c0.pc # "done" \/ c.pc = "done" THEN "none"
  ELSE IF IsFetch(c0) /\ c0.op = c.op /\ c0.type = c.type /\ c0.cacheKey = c.cacheKey
  THEN IF c0.cacheGet = "miss" /\ c0.errors = <<>> /\ c0.cacheSet = "ok" /\ ~c0.expired
       THEN "fetchFresh" ELSE "fetchOther"
  ELSE IF /\ IsFetch(c) /\ c0.identifier = c.identifier
          /\ \/ c0.op = "formClearCache" /\ c.op = "getFormData"
             \/ c0.op = "admitClearCache" /\ c.op = "getAdmitCard"
  THEN IF \A i \in DOMAIN c0.deleted : c0.deleted[i][2] THEN "clearOk" ELSE "clearFailed"
  ELSE "other"

\* No call is between its invocation and its return.
Quiescent == \A q \in AllProcs : calls[q].pc \in {"idle", "done"}

\* Caller p invokes a service method; the new call remembers how the caller's
\* previous call relates to it.
Invoke(p, c) ==
  /\ calls[p].pc \in {"idle", "done"}
  /\ calls' = [calls EXCEPT ![p] =
       [c EXCEPT !.prevKind = PrevKind(calls[p], c),
                 !.prevEnv = IF PrevKind(calls[p], c) = "fetchFresh"
                             THEN calls[p].env ELSE NoEnvelope,
                 !.prevCalls = IF PrevKind(calls[p], c) = "fetchFresh"
                               THEN calls[p].httpCalls ELSE 0]]

\* The call of p returns env.
Returned(c, env) == [c EXCEPT !.pc = "done", !.env = env]

\* Variant of the form-data key built with the admit-card prefix.
formCacheKeyAdmitPrefix(registrationNumber) == admitCardCachePrefix \o ":" \o registrationNumber

\* FormDataService.getFormData / clearCache: the cache key.
formCacheKey(registrationNumber) == formDataCachePrefix \o ":" \o registrationNumber

\* AdmitCardService.getIdentifier
getIdentifier(dto) ==
  IF Truthy(dto.registrationNumber) THEN ToStr(dto.registrationNumber)
  ELSE ToStr(dto.rollCode) \o "-" \o ToStr(dto.rollNumber)

\* Variant of the admit-card key without the type.
admitCacheKeyNoType(type, identifier) == admitCardCachePrefix \o ":" \o identifier

\* AdmitCardService.getAdmitCard: the cache key.
admitCacheKey(type, identifier) == admitCardCachePrefix \o ":" \o type \o ":" \o identifier

\* Variant of deleteCacheByPrefix that leaves out the theory key.
deleteCacheByPrefixPatternsNoTheory(prefix, identifier) ==
  <<prefix \o ":" \o identifier,
    prefix \o ":" \o PRACTICAL \o ":" \o identifier>>

\* BsebBaseService.deleteCacheByPrefix: the keys it deletes, in order.
deleteCacheByPrefixPatterns(prefix, identifier) ==
  <<prefix \o ":" \o identifier,
    prefix \o ":" \o THEORY \o ":" \o identifier,
    prefix \o ":" \o PRACTICAL \o ":" \o identifier>>

\* The context label handed to handleApiError.
Context(c) == IF c.op = "getFormData" THEN "form-data" ELSE c.type \o "-admit-card"

\* Variant of the fetch methods without their try/catch: the error leaves the
\* method.
CaughtNowhere(c, error) == [c EXCEPT !.pc = "threw"]

\* The catch block of getFormData / getAdmitCard.
Caught(c, error) ==
  [Returned(c, handleApiError(error, Context(c))) EXCEPT !.normalized = TRUE]

\* Variant of executeWithRetry that keeps the first error it saw.
recordFirstError(c, error) == IF c.lastError = NoError THEN error ELSE c.lastError

\* executeWithRetry: lastError after a failed attempt.
recordError(c, error) == error

\* Variant of the backoff with a constant wait.
backoffDelayConstant(attempt) == retryDelay

\* executeWithRetry: the wait before the retry that follows attempt number `attempt`.
backoffDelay(attempt) == retryDelay * (attempt + 1)

\* Variant of executeWithRetry whose loop runs once more (retries + 1).
afterFailureOneMore(c, error) ==
  LET c1 == [c EXCEPT !.lastError = recordError(c, error), !.errors = Append(@, error)]
  IN IF IsClientError(error) THEN Caught([c1 EXCEPT !.thrown = error], error)
     ELSE IF c1.attempt < retryAttempts + 1
          THEN [c1 EXCEPT !.pc = "delay", !.delays = Append(@, backoffDelay(c1.attempt)),
                          !.warnings = Append(@, c1.attempt + 1)]
          ELSE Caught([c1 EXCEPT !.thrown = c1.lastError], c1.lastError)

\* Variant of executeWithRetry that also warns after its last attempt.
afterFailureWarnsAtExhaustion(c, error) ==
  LET c1 == [c EXCEPT !.lastError = recordError(c, error), !.errors = Append(@, error)]
  IN IF IsClientError(error) THEN Caught([c1 EXCEPT !.thrown = error], error)
     ELSE IF c1.attempt < retryAttempts
          THEN [c1 EXCEPT !.pc = "delay", !.delays = Append(@, backoffDelay(c1.attempt)),
                          !.warnings = Append(@, c1.attempt + 1)]
          ELSE Caught([c1 EXCEPT !.thrown = c1.lastError,
                                 !.warnings = Append(@, c1.attempt + 1)], c1.lastError)

\* executeWithRetry: the catch block of attempt c.attempt.
afterFailure(c, error) ==
  LET c1 == [c EXCEPT !.lastError = recordError(c, error), !.errors = Append(@, error)]
  IN IF IsClientError(error) THEN Caught([c1 EXCEPT !.thrown = error], error)
     ELSE IF c1.attempt < retryAttempts
          THEN [c1 EXCEPT !.pc = "delay", !.delays = Append(@, backoffDelay(c1.attempt)),
                          !.warnings = Append(@, c1.attempt + 1)]
          ELSE Caught([c1 EXCEPT !.thrown = c1.lastError], c1.lastError)

\* Variant in which every service writes with the form-data TTL.
cacheTtlFormEverywhere(c) == formDataCacheTtl

\* The TTL a service writes its entries with.
cacheTtl(c) == IF c.op = "getFormData" THEN formDataCacheTtl ELSE admitCardCacheTtl

\* Variant of the refusal message with ?? in place of ||.
refusalMessageCoalesce(apiResponse) ==
  Coalesce(Read(apiResponse, "message"), Str("No data returned from BSEB API"))

\* apiResponse.message || 'No data returned from BSEB API'
refusalMessage(apiResponse) ==
  OrElse(Read(apiResponse, "message"), Str("No data returned from BSEB API"))

\* Variant of the upstream check that tests the success flag only.
afterGetResponseFlagOnly(c, apiResponse) ==
  IF Nullish(apiResponse) THEN Caught(c, TypeError)
  ELSE IF ~Truthy(Read(apiResponse, "success"))
  THEN Returned(c, FailureResponse(refusalMessage(apiResponse)))
  ELSE [c EXCEPT !.pc = "cacheSet",
                 !.data = IF c.op = "getFormData"
                          THEN formTransformResponse(Read(apiResponse, "data"))
                          ELSE getTransformResponse(Read(apiResponse, "data"), c.type)]

\* getFormData and the GET variant of getAdmitCard, from the upstream body to
\* the setInCache call.
afterGetResponse(c, apiResponse) ==
  IF Nullish(apiResponse) THEN Caught(c, TypeError)
  ELSE IF ~Truthy(Read(apiResponse, "success")) \/ ~Truthy(Read(apiResponse, "data"))
  THEN Returned(c, FailureResponse(refusalMessage(apiResponse)))
  ELSE [c EXCEPT !.pc = "cacheSet",
                 !.data = IF c.op = "getFormData"
                          THEN formTransformResponse(Read(apiResponse, "data"))
                          ELSE getTransformResponse(Read(apiResponse, "data"), c.type)]

\* Variant of the POST path that refuses a body with neither student nor
\* subject details.
afterPostResponseRequiresDetails(c, rawData) ==
  IF postTransformThrows(rawData) THEN Caught(c, TypeError)
  ELSE IF \A k \in {"StudentDetails", "studentDetails", "SubjectDetails", "subjectDetails"} :
            ~Truthy(Read(rawData, k))
  THEN Returned(c, FailureResponse(Str("No data returned from BSEB API")))
  ELSE [c EXCEPT !.pc = "cacheSet", !.data = postTransformResponse(rawData)]

\* Variant of the POST path that takes null for a body the transformer raises
\* on, and goes on to cache it.
afterPostResponseNullOnRaise(c, rawData) ==
  IF postTransformThrows(rawData) THEN [c EXCEPT !.pc = "cacheSet", !.data = Null]
  ELSE [c EXCEPT !.pc = "cacheSet", !.data = postTransformResponse(rawData)]

\* The POST variant of getAdmitCard, from the upstream body to the setInCache call.
afterPostResponse(c, rawData) ==
  IF postTransformThrows(rawData) THEN Caught(c, TypeError)
  ELSE [c EXCEPT !.pc = "cacheSet", !.data = postTransformResponse(rawData)]

\* The call uses httpGet (getFormData, GET variant) or httpPost (POST variant).
UsesGet(c) == c.op = "getFormData" \/ variant = "GET"

(***************************************************************************)
(* Actions                                                                 *)
(***************************************************************************)
\* FormDataService.getFormData, up to the cache read.
GetFormData(p, registrationNumber) ==
  /\ Invoke(p, [IdleCall EXCEPT !.pc = "cacheGet", !.op = "getFormData",
                                !.identifier = registrationNumber,
                                !.cacheKey = formCacheKey(registrationNumber)])
  /\ UNCHANGED <<variant, cache>>

\* AdmitCardService.getAdmitCard (via getTheoryAdmitCard / getPracticalAdmitCard),
\* up to the cache read; the GET variant first rejects a request without a
\* registration number.
GetAdmitCard(p, dto, type) ==
  LET c == [IdleCall EXCEPT !.op = "getAdmitCard", !.type = type, !.dto = dto]
  IN /\ IF variant = "GET"
        THEN IF ~Truthy(dto.registrationNumber)
             THEN Invoke(p, Returned(c, FailureResponse(Str("Registration number is required"))))
             ELSE Invoke(p, [c EXCEPT !.pc = "cacheGet",
                                      !.identifier = ToStr(dto.registrationNumber),
                                      !.cacheKey = admitCacheKey(type, ToStr(dto.registrationNumber))])
        ELSE Invoke(p, [c EXCEPT !.pc = "cacheGet",
                                 !.identifier = getIdentifier(dto),
                                 !.cacheKey = admitCacheKey(type, getIdentifier(dto))])
     /\ UNCHANGED <<variant, cache>>

\* Variant of getFromCache that parses the stored value but does not return it.
getFromCacheNoReturn(store, cacheKey, storeOk) == Null

\* BsebBaseService.getFromCache.  storeOk is false when redisService.get
\* rejects or JSON.parse throws on what it returned: that is caught and null
\* is returned.
getFromCache(store, cacheKey, storeOk) ==
  IF storeOk /\ cacheKey \in DOMAIN store THEN JsonParse(store[cacheKey].value) ELSE Null

\* The cache read and the cache-hit branch of getFormData / getAdmitCard.
CacheGet(p) ==
  /\ calls[p].pc = "cacheGet"
  /\ \E storeOk \in BOOLEAN :
       LET c == [calls[p] EXCEPT !.cacheCalls = @ + 1]
           cachedData == getFromCache(cache, c.cacheKey, storeOk)
       IN calls' = [calls EXCEPT ![p] =
            IF Truthy(cachedData)
            THEN Returned([c EXCEPT !.cacheGet = "hit"], createSuccessResponse(cachedData, TRUE))
            ELSE [c EXCEPT !.pc = "request",
                           !.cacheGet = IF storeOk THEN "miss" ELSE "error"]]
  /\ UNCHANGED <<variant, cache>>

\* One attempt of executeWithRetry answered 2xx: the caller continues up to
\* its setInCache call, or returns.
RequestSucceeds(p, body) ==
  /\ calls[p].pc = "request"
  /\ body \in (IF UsesGet(calls[p]) THEN FormBodies ELSE PostBodies)
  /\ LET c == [calls[p] EXCEPT !.httpCalls = @ + 1, !.answered = TRUE, !.body = body]
     IN calls' = [calls EXCEPT ![p] =
          IF UsesGet(c) THEN afterGetResponse(c, body) ELSE afterPostResponse(c, body)]
  /\ UNCHANGED <<variant, cache>>

\* One attempt of executeWithRetry failed.
RequestFails(p, error) ==
  /\ calls[p].pc = "request"
  /\ calls' = [calls EXCEPT ![p] = afterFailure([calls[p] EXCEPT !.httpCalls = @ + 1], error)]
  /\ UNCHANGED <<variant, cache>>

\* Variant of the backoff wait whose timer never fires.
afterDelayNever(c) == c

\* executeWithRetry: the wait is over, the loop increments attempt and calls
\* requestFn again.
afterDelay(c) == [c EXCEPT !.pc = "request", !.attempt = @ + 1]

\* The backoff delay elapses and the loop goes to its next attempt.
Delay(p) ==
  /\ calls[p].pc = "delay"
  /\ calls' = [calls EXCEPT ![p] = afterDelay(calls[p])]
  /\ UNCHANGED <<variant, cache>>

\* Variant of setInCache without its try/catch: a store failure reaches the
\* catch block of the caller.
afterSetInCacheUncaught(c, storeOk) ==
  IF storeOk
  THEN Returned([c EXCEPT !.cacheCalls = @ + 1, !.cacheSet = "ok"],
                createSuccessResponse(c.data, FALSE))
  ELSE Caught([c EXCEPT !.cacheCalls = @ + 1, !.cacheSet = "error"], TypeError)

\* Variant of the fresh path that reports its envelope as cached.
afterSetInCacheCached(c, storeOk) ==
  Returned([c EXCEPT !.cacheCalls = @ + 1, !.cacheSet = IF storeOk THEN "ok" ELSE "error"],
           createSuccessResponse(c.data, TRUE))

\* BsebBaseService.setInCache returns, whether the store call worked or not,
\* and the caller returns the fresh envelope.
afterSetInCache(c, storeOk) ==
  Returned([c EXCEPT !.cacheCalls = @ + 1, !.cacheSet = IF storeOk THEN "ok" ELSE "error"],
           createSuccessResponse(c.data, FALSE))

\* Variant of setInCache that writes only when the key is absent (SET NX).
setInCacheIfAbsent(store, cacheKey, data, ttlSeconds, storeOk) ==
  IF storeOk /\ cacheKey \notin DOMAIN store
  THEN With(store, cacheKey, [value |-> JsonStringify(data), ttl |-> ttlSeconds, origin |-> <<>>])
  ELSE store

\* Variant of setInCache that hands the object itself to redisService.set.
setInCacheUnserialized(store, cacheKey, data, ttlSeconds, storeOk) ==
  IF storeOk
  THEN With(store, cacheKey,
            [value |-> [json |-> Str("[object Object]")], ttl |-> ttlSeconds, origin |-> <<>>])
  ELSE store

\* BsebBaseService.setInCache: the store after
\* redisService.set(cacheKey, JSON.stringify(data), ttlSeconds).
setInCache(store, cacheKey, data, ttlSeconds, storeOk) ==
  IF storeOk
  THEN With(store, cacheKey, [value |-> JsonStringify(data), ttl |-> ttlSeconds, origin |-> <<>>])
  ELSE store

\* The call that made a store write.
Origin(p) ==
  [by |-> p, op |-> calls[p].op, type |-> calls[p].type, identifier |-> calls[p].identifier,
   dto |-> calls[p].dto, body |-> calls[p].body, preClear |-> calls[p].preClear]

\* The store with the entry under key k, if any, marked as written by `origin`.
Stamp(store, k, origin) ==
  [j \in DOMAIN store |-> IF j = k THEN [store[j] EXCEPT !.origin = origin] ELSE store[j]]

\* The cache write of getFormData / getAdmitCard and their return.
CacheSet(p) ==
  /\ calls[p].pc = "cacheSet"
  /\ \E storeOk \in BOOLEAN :
       /\ cache' = IF storeOk
                   THEN Stamp(setInCache(cache, calls[p].cacheKey, calls[p].data,
                                         cacheTtl(calls[p]), storeOk),
                              calls[p].cacheKey, Origin(p))
                   ELSE cache
       /\ calls' = [calls EXCEPT ![p] = afterSetInCache(calls[p], storeOk)]
  /\ UNCHANGED variant

\* FormDataService.clearCache, up to its store call.
FormClearCache(p, registrationNumber) ==
  /\ Invoke(p, [IdleCall EXCEPT !.pc = "delete", !.op = "formClearCache",
                                !.identifier = registrationNumber,
                                !.pending = <<formCacheKey(registrationNumber)>>])
  /\ UNCHANGED <<variant, cache>>

\* AdmitCardService.clearCache, up to its first store call.
AdmitClearCache(p, identifier) ==
  /\ Invoke(p, [IdleCall EXCEPT !.pc = "delete", !.op = "admitClearCache",
                                !.identifier = identifier,
                                !.pending = deleteCacheByPrefixPatterns(admitCardCachePrefix,
                                                                        identifier)])
  /\ UNCHANGED <<variant, cache>>

\* Variant of deleteFromCache without its try/catch: a store failure ends
\* clearCache by an exception.
afterDeleteFromCacheUncaught(c, storeOk) ==
  [c EXCEPT !.cacheCalls = @ + 1,
            !.pending = IF storeOk THEN Tail(@) ELSE @,
            !.deleted = Append(@, <<Head(c.pending), storeOk>>),
            !.pc = IF ~storeOk THEN "threw"
                   ELSE IF Tail(c.pending) = <<>> THEN "done" ELSE "delete"]

\* Variant of deleteCacheByPrefix that stops at the first failed deletion.
afterDeleteFromCacheStopOnFailure(c, storeOk) ==
  [c EXCEPT !.cacheCalls = @ + 1,
            !.pending = IF storeOk THEN Tail(@) ELSE <<>>,
            !.deleted = Append(@, <<Head(c.pending), storeOk>>),
            !.pc = IF ~storeOk \/ Tail(c.pending) = <<>> THEN "done" ELSE "delete"]

\* BsebBaseService.deleteFromCache returns, whether the store call worked or
\* not; clearCache goes to its next key or returns.
afterDeleteFromCache(c, storeOk) ==
  [c EXCEPT !.cacheCalls = @ + 1,
            !.pending = Tail(@),
            !.deleted = Append(@, <<Head(c.pending), storeOk>>),
            !.pc = IF Tail(c.pending) = <<>> THEN "done" ELSE "delete"]

\* The deletion of the next key of clearCache.  The fetches of that key that
\* are waiting for their cache write hold an upstream answer older than the
\* deletion.
Delete(p) ==
  /\ calls[p].pc = "delete"
  /\ \E storeOk \in BOOLEAN :
       /\ cache' = IF storeOk THEN Without(cache, Head(calls[p].pending)) ELSE cache
       /\ calls' = [q \in AllProcs |->
                      IF q = p THEN afterDeleteFromCache(calls[p], storeOk)
                      ELSE IF calls[q].pc = "cacheSet" /\ calls[q].cacheKey = Head(calls[p].pending)
                           THEN [calls[q] EXCEPT !.preClear = TRUE]
                           ELSE calls[q]]
  /\ UNCHANGED variant

\* The TTL of an entry runs out.
Expire(k) ==
  /\ k \in DOMAIN cache
  /\ cache' = Without(cache, k)
  /\ calls' = [p \in AllProcs |->
                 IF calls[p].cacheKey = k THEN [calls[p] EXCEPT !.expired = TRUE] ELSE calls[p]]
  /\ UNCHANGED variant

Next ==
  \/ \E p \in SeqProcs, r \in FetchedNumbers : Quiescent /\ GetFormData(p, r)
  \/ \E p \in SeqProcs, dto \in Dtos, type \in {THEORY, PRACTICAL} :
       Quiescent /\ GetAdmitCard(p, dto, type)
  \/ \E p \in SeqProcs, r \in RegistrationNumbers : Quiescent /\ FormClearCache(p, r)
  \/ \E p \in SeqProcs, i \in AdmitIdentifiers : Quiescent /\ AdmitClearCache(p, i)
  \/ \E p \in SeqProcs : CacheGet(p)
  \/ \E p \in SeqProcs, body \in FormBodies \cup AdmitBodies : RequestSucceeds(p, body)
  \/ \E p \in SeqProcs, error \in RequestErrors : RequestFails(p, error)
  \/ \E p \in SeqProcs : Delay(p)
  \/ \E p \in SeqProcs : CacheSet(p)
  \/ \E p \in SeqProcs : Delete(p)
  \/ \E k \in DOMAIN cache : Expire(k)

Spec == Init /\ [][Next]_vars

\* Every store round trip, upstream request and backoff timer of a call in
\* progress completes: the store client and axios (timeout set in httpGet /
\* httpPost) settle their promises, and setTimeout fires.
Fairness ==
  \A p \in SeqProcs :
    /\ WF_vars(CacheGet(p))
    /\ WF_vars((\E body \in FormBodies \cup AdmitBodies : RequestSucceeds(p, body))
                 \/ (\E error \in RequestErrors : RequestFails(p, error)))
    /\ WF_vars(Delay(p))
    /\ WF_vars(CacheSet(p))
    /\ WF_vars(Delete(p))

LiveSpec == Init /\ [][Next]_vars /\ Fairness

(***************************************************************************)
(* Concurrent callers of FormDataService on one registration number: the   *)
(* calls of all callers interleave at their awaits.                        *)
(***************************************************************************)
\* Upstream answers to the concurrent callers: two bodies the service accepts,
\* and one failure that is not retried.
ConcBodies == {BodyFormA, BodyFormB}
ConcErrors == {Error404}

ConcInit ==
  /\ variant = "GET"
  /\ cache = <<>>
  /\ calls = [p \in AllProcs |-> IdleCall]

ConcNext ==
  \/ \E p \in AllProcs, r \in FetchedNumbers : GetFormData(p, r)
  \/ \E p \in AllProcs, r \in FetchedNumbers : FormClearCache(p, r)
  \/ \E p \in AllProcs : CacheGet(p)
  \/ \E p \in AllProcs, body \in ConcBodies : RequestSucceeds(p, body)
  \/ \E p \in AllProcs, error \in ConcErrors : RequestFails(p, error)
  \/ \E p \in AllProcs : CacheSet(p)
  \/ \E p \in AllProcs : Delete(p)

ConcSpec == ConcInit /\ [][ConcNext]_vars

(***************************************************************************)
(* Admit-card lookups by registration number and by roll code and roll     *)
(* number, one call at a time, in either variant of AdmitCardService.      *)
(***************************************************************************)
\* GetAdmitCardRequestDto values that pass the DTO's validators (a non-empty
\* string registrationNumber, or non-empty strings rollCode and rollNumber).
DtoByRollPair == Dto(Undef, Str("C1"), Str("N1"))
DtoHyphenated == Dto(Str("C1-N1"), Undef, Undef)
DtoBoth == Dto(Str("R1"), Str("C1"), Str("N1"))
KeyDtos == {DtoByRollPair, DtoHyphenated, DtoBoth}

\* Upstream answers to the lookups: a body each variant accepts, and one
\* failure that is not retried.
KeyBodies == {BodyFormA, BodyAdmitA}
KeyErrors == {Error404}

KeyNext ==
  \/ \E p \in SeqProcs, dto \in KeyDtos, type \in {THEORY, PRACTICAL} :
       Quiescent /\ GetAdmitCard(p, dto, type)
  \/ \E p \in SeqProcs : CacheGet(p)
  \/ \E p \in SeqProcs, body \in KeyBodies : RequestSucceeds(p, body)
  \/ \E p \in SeqProcs, error \in KeyErrors : RequestFails(p, error)
  \/ \E p \in SeqProcs : CacheSet(p)

KeySpec == Init /\ [][KeyNext]_vars

(***************************************************************************)
(* The POST variant of AdmitCardService on its own, one call at a time:    *)
(* fetches by registration number answered by any body of the admit-card   *)
(* endpoints, and clearCache with identifiers that look like part of a key.*)
(***************************************************************************)
\* Identifiers passed to AdmitCardService.clearCache.
ClearIdentifiers == {"R1", "theory:R1"}

\* Failures of one upstream request: one that is not retried.
PostErrors == {Error404}

PostInit ==
  /\ variant = "POST"
  /\ cache = <<>>
  /\ calls = [p \in AllProcs |-> IdleCall]

PostNext ==
  \/ \E p \in SeqProcs, type \in {THEORY, PRACTICAL} :
       Quiescent /\ GetAdmitCard(p, DtoByRegistration, type)
  \/ \E p \in SeqProcs, i \in ClearIdentifiers : Quiescent /\ AdmitClearCache(p, i)
  \/ \E p \in SeqProcs : CacheGet(p)
  \/ \E p \in SeqProcs, body \in PostBodies : RequestSucceeds(p, body)
  \/ \E p \in SeqProcs, error \in PostErrors : RequestFails(p, error)
  \/ \E p \in SeqProcs : CacheSet(p)
  \/ \E p \in SeqProcs : Delete(p)
  \/ \E k \in DOMAIN cache : Expire(k)

PostSpec == PostInit /\ [][PostNext]_vars

(***************************************************************************)
(* The pure functions on their own: handleApiError, getFieldValue and the  *)
(* three transformResponse methods, each applied to an input drawn from    *)
(* the sets below.  A call record here holds the function's name (op), its *)
(* arguments and its result(s).                                            *)
(***************************************************************************)
\* Errors handed to handleApiError: AxiosErrors with a response (status and
\* body), AxiosErrors without one (code), and errors that are no AxiosError.
ErrorStatuses == {304, 400, 401, 403, 404, 422, 500, 503}
ErrorBodies ==
  {Undef, Null, Str("<html>"), Obj([message |-> Str("upstream says no")]),
   Obj([message |-> Str("")]), Obj([error |-> Str("e")])}
NetworkCodes == {"ECONNABORTED", "ENOTFOUND", "ECONNREFUSED", "ECONNRESET", "ERR_NETWORK"}
OtherErrors == {TypeError, [TypeError EXCEPT !.code = "ECONNABORTED"]}
ErrorInputs ==
  {HttpError(status, body) : status \in ErrorStatuses, body \in ErrorBodies}
    \cup {NetworkError(code) : code \in NetworkCodes}
    \cup OtherErrors

\* The context labels the services pass to handleApiError.
Contexts == {"form-data", THEORY \o "-admit-card", PRACTICAL \o "-admit-card"}

\* Objects and key lists handed to getFieldValue.
FieldKeys == {"K1", "K2", "K3"}
FieldValues == {Undef, Null, Str(""), Str("A"), Str("B"), Bool(FALSE)}
FieldObjects ==
  {Obj(f) : f \in UNION {[ks -> FieldValues] : ks \in SUBSET {"K1", "K2"}}}
KeyLists ==
  {<<>>} \cup {<<k>> : k \in FieldKeys} \cup {<<j, k>> : j \in FieldKeys, k \in FieldKeys}

\* Raw payloads handed to the POST variant's transformResponse.
RawAdmitPayloads ==
  {BodyAdmitA,
   Obj([studentDetails |-> Obj([StudentName |-> Str("A"), studentName |-> Str("B")])]),
   Obj([StudentDetails |-> Obj([StudentName |-> Null, studentName |-> Str("B")])]),
   Obj([StudentDetails |-> Obj([Rollcode |-> Str(""), rollCode |-> Str("C")])]),
   EmptyObj}

\* Raw records (the data of a form-data body) handed to
\* FormDataService.transformResponse and to the GET variant's transformResponse:
\* a usual one, one with empty, null and explicit values, one with empty nested
\* objects, and one with nothing.
RawFormA == Read(BodyFormA, "data")
RawFormExplicit ==
  Obj([name |-> Str(""), father_name |-> Null, school_code |-> Str("S1"), address |-> Null,
       subjects |-> Obj([mil |-> Obj([name |-> Str(""), code |-> Str("101")]),
                         optional |-> Null,
                         compulsory_2 |-> Obj([name |-> Str("Science"), is_checked |-> Null,
                                               readonly |-> Bool(TRUE)]),
                         vocational |-> Obj([name |-> Str("IT"), is_checked |-> Bool(FALSE),
                                             readonly |-> Bool(FALSE)])])])
RawFormEmptyNested == Obj([address |-> EmptyObj, subjects |-> EmptyObj, photo |-> Str("P")])
RawFormPayloads == {RawFormA, RawFormExplicit, RawFormEmptyNested, EmptyObj}

\* How many times one payload is transformed.
MaxRepeats == 2

UnitCalls ==
  {[pc |-> "idle", op |-> "handleApiError", error |-> error, context |-> context,
    env |-> NoEnvelope] : error \in ErrorInputs, context \in Contexts}
    \cup {[pc |-> "idle", op |-> "getFieldValue", obj |-> obj, keys |-> keys, result |-> Undef] :
             obj \in FieldObjects, keys \in KeyLists}
    \cup {[pc |-> "idle", op |-> "transformResponse", rawData |-> rawData, results |-> <<>>] :
             rawData \in RawAdmitPayloads}
    \cup {[pc |-> "idle", op |-> "formTransformResponse", raw |-> raw, result |-> Undef] :
             raw \in RawFormPayloads}
    \cup {[pc |-> "idle", op |-> "getTransformResponse", rawData |-> rawData,
            theory |-> Undef, practical |-> Undef] : rawData \in RawFormPayloads}

UnitInit ==
  /\ variant = "POST"
  /\ cache = <<>>
  /\ \E u \in UnitCalls : calls = [p \in AllProcs |-> u]

\* handleApiError(error, context, identifier) returns its envelope.
HandleApiError(p) ==
  /\ calls[p].op = "handleApiError" /\ calls[p].pc = "idle"
  /\ calls' = [calls EXCEPT ![p] =
       [@ EXCEPT !.pc = "done", !.env = handleApiError(calls[p].error, calls[p].context)]]
  /\ UNCHANGED <<variant, cache>>

\* getFieldValue(obj, ...keys) returns.
GetFieldValue(p) ==
  /\ calls[p].op = "getFieldValue" /\ calls[p].pc = "idle"
  /\ calls' = [calls EXCEPT ![p] =
       [@ EXCEPT !.pc = "done", !.result = getFieldValue(calls[p].obj, calls[p].keys)]]
  /\ UNCHANGED <<variant, cache>>

\* transformResponse(rawData) of the POST variant returns; it may be called again
\* on the same payload.
TransformResponse(p) ==
  /\ calls[p].op = "transformResponse" /\ Len(calls[p].results) < MaxRepeats
  /\ calls' = [calls EXCEPT ![p] =
       [@ EXCEPT !.pc = "done", !.results = Append(@, postTransformResponse(calls[p].rawData))]]
  /\ UNCHANGED <<variant, cache>>

\* FormDataService.transformResponse(raw) returns.
FormTransformResponse(p) ==
  /\ calls[p].op = "formTransformResponse" /\ calls[p].pc = "idle"
  /\ calls' = [calls EXCEPT ![p] =
       [@ EXCEPT !.pc = "done", !.result = formTransformResponse(calls[p].raw)]]
  /\ UNCHANGED <<variant, cache>>

\* transformResponse(rawData, type) of the GET variant returns, once per type.
GetTransformResponse(p, type) ==
  /\ calls[p].op = "getTransformResponse"
  /\ calls' = [calls EXCEPT ![p] =
       IF type = THEORY
       THEN [@ EXCEPT !.pc = "done", !.theory = getTransformResponse(calls[p].rawData, type)]
       ELSE [@ EXCEPT !.pc = "done", !.practical = getTransformResponse(calls[p].rawData, type)]]
  /\ calls'[p] # calls[p]
  /\ UNCHANGED <<variant, cache>>

UnitNext ==
  \/ \E p \in SeqProcs : HandleApiError(p)
  \/ \E p \in SeqProcs : GetFieldValue(p)
  \/ \E p \in SeqProcs : TransformResponse(p)
  \/ \E p \in SeqProcs : FormTransformResponse(p)
  \/ \E p \in SeqProcs, type \in {THEORY, PRACTICAL} : GetTransformResponse(p, type)

UnitSpec == UnitInit /\ [][UnitNext]_vars

(***************************************************************************)
(* Properties                                                              *)
(***************************************************************************)
\* The envelope says cached=true.
IsCached(env) == "cached" \in DOMAIN env /\ env.cached

\* The status of an error is in [400,500).
Is4xx(error) == error.hasResponse /\ error.status >= 400 /\ error.status < 500

\* The normalized record a fetch builds from the 2xx body it received.
FreshData(c) ==
  IF c.op = "getFormData" THEN formTransformResponse(Read(c.body, "data"))
  ELSE IF variant = "GET" THEN getTransformResponse(Read(c.body, "data"), c.type)
  ELSE postTransformResponse(c.body)

\* The 2xx body a fetch received is one it transforms and stores.
GoodBody(c) ==
  /\ c.answered
  /\ IF UsesGet(c)
     THEN ~Nullish(c.body) /\ Truthy(Read(c.body, "success")) /\ Truthy(Read(c.body, "data"))
     ELSE ~postTransformThrows(c.body)

\* C1: a fetch of K that misses a working cache and is answered by upstream
\* at once returns cached=false after exactly one upstream call; the caller's
\* next call, a fetch of K again (no expiry in between, store working),
\* returns cached=true without any upstream call, and its data reads the same
\* as the first envelope's.
C1_SecondFetchIsCached ==
  \A p \in AllProcs :
    LET c == calls[p]
    IN (c.pc = "done" /\ c.prevKind = "fetchFresh" /\ c.cacheGet # "error" /\ ~c.expired) =>
         /\ c.prevEnv.success /\ ~c.prevEnv.cached /\ c.prevCalls = 1
         /\ c.env.success /\ c.env.cached /\ c.httpCalls = 0
         /\ SameData(c.env.data, c.prevEnv.data)

C1_Witness ==
  \E p \in AllProcs :
    /\ calls[p].pc = "done" /\ calls[p].prevKind = "fetchFresh"
    /\ calls[p].cacheGet = "hit" /\ ~calls[p].expired
    /\ calls[p].op = "getAdmitCard"

\* C2 as stated: whenever the store holds an entry under the request's key
\* when the cache read is made, the fetch returns success=true, cached=true
\* with that entry's data and makes no upstream call.
C2_EntryPresentIsHit ==
  [][\A p \in AllProcs :
       (/\ calls[p].pc = "cacheGet" /\ calls'[p].pc # "cacheGet"
        /\ calls[p].cacheKey \in DOMAIN cache) =>
         /\ calls'[p].pc = "done"
         /\ calls'[p].env.success /\ IsCached(calls'[p].env)
         /\ calls'[p].env.data = cache[calls[p].cacheKey].value.json
         /\ calls'[p].httpCalls = 0]_vars

\* C2 amended: whenever the cache read succeeds and the store holds an entry
\* under the request's key, the fetch returns success=true, cached=true with
\* that entry's data and makes no upstream call.
C2_ReadEntryIsHit ==
  [][\A p \in AllProcs :
       (/\ calls[p].pc = "cacheGet" /\ calls'[p].pc # "cacheGet"
        /\ calls'[p].cacheGet # "error"
        /\ calls[p].cacheKey \in DOMAIN cache) =>
         /\ calls'[p].pc = "done"
         /\ calls'[p].env.success /\ IsCached(calls'[p].env)
         /\ calls'[p].env.data = cache[calls[p].cacheKey].value.json
         /\ calls'[p].httpCalls = 0]_vars

C2_Witness ==
  \E p \in AllProcs :
    /\ calls[p].pc = "done" /\ calls[p].cacheGet = "hit" /\ calls[p].httpCalls = 0
    /\ calls[p].env.cached /\ calls[p].op = "getFormData"

\* C3 as stated: a fetch that directly follows clearCache for the same
\* identifier never returns cached=true and makes an upstream call.
C3_FetchAfterClearIsFresh ==
  \A p \in AllProcs :
    LET c == calls[p]
    IN (c.pc = "done" /\ c.prevKind \in {"clearOk", "clearFailed"}) =>
         ~IsCached(c.env) /\ c.httpCalls >= 1

\* C3 amended: a fetch that directly follows a clearCache for the same
\* identifier whose store deletions all succeeded never returns cached=true
\* and makes an upstream call.
C3_FetchAfterSuccessfulClearIsFresh ==
  \A p \in AllProcs :
    LET c == calls[p]
    IN (c.pc = "done" /\ c.prevKind = "clearOk") =>
         ~IsCached(c.env) /\ c.httpCalls >= 1

C3_Witness ==
  \E p \in AllProcs :
    /\ calls[p].pc = "done" /\ calls[p].prevKind = "clearOk"
    /\ calls[p].op = "getAdmitCard" /\ calls[p].type = PRACTICAL
    /\ calls[p].env.success /\ ~calls[p].env.cached /\ calls[p].httpCalls = 1

\* C4: an attempt that fails with a status in [400,500) ends executeWithRetry
\* there: the error is thrown, no backoff wait is added and the operation is
\* not invoked again; when the first response is a 4xx the operation has been
\* invoked exactly once.
C4_ClientErrorNotRetried ==
  \A p \in AllProcs :
    LET c == calls[p]
    IN (c.errors # <<>> /\ Is4xx(c.errors[Len(c.errors)])) =>
         /\ c.pc = "done"
         /\ c.thrown = c.errors[Len(c.errors)]
         /\ Len(c.delays) = Len(c.errors) - 1
         /\ c.httpCalls = Len(c.errors)
         /\ (Is4xx(c.errors[1]) => c.httpCalls = 1 /\ c.delays = <<>>)

C4_Witness ==
  \E p \in AllProcs :
    /\ calls[p].pc = "done" /\ calls[p].errors = <<Error400>>
    /\ calls[p].httpCalls = 1 /\ calls[p].delays = <<>>

\* C5: when every attempt fails with a status >= 500 or without a response,
\* the failure surfaces after exactly retryAttempts + 1 invocations, and the
\* wait before the k-th retry was retryDelay * k.
C5_TransientRetriedWithLinearBackoff ==
  \A p \in AllProcs :
    LET c == calls[p]
    IN (/\ c.pc = "done" /\ c.errors # <<>> /\ ~c.answered
        /\ \A i \in DOMAIN c.errors : ~Is4xx(c.errors[i])) =>
         /\ c.httpCalls = retryAttempts + 1
         /\ c.delays = [k \in 1..retryAttempts |-> retryDelay * k]
         /\ \A k \in 1..(Len(c.delays) - 1) : c.delays[k] < c.delays[k + 1]
         /\ ~c.env.success

C5_Witness ==
  \E p \in AllProcs :
    /\ calls[p].pc = "done" /\ calls[p].httpCalls = retryAttempts + 1
    /\ calls[p].errors = <<Error500, ErrorTimeout, Error500>>
    /\ calls[p].delays = <<1000, 2000>>

\* C6: when executeWithRetry has used all its attempts, what it throws is the
\* error of the last attempt, and the returned envelope is that error's
\* classification.
C6_LastErrorThrown ==
  \A p \in AllProcs :
    LET c == calls[p]
    IN (c.pc = "done" /\ Len(c.errors) = retryAttempts + 1) =>
         /\ c.thrown = c.errors[Len(c.errors)]
         /\ c.env = handleApiError(c.errors[Len(c.errors)], Context(c))

C6_Witness ==
  \E p \in AllProcs :
    /\ calls[p].pc = "done" /\ calls[p].errors = <<Error500, Error500, ErrorTimeout>>
    /\ calls[p].env.errorCode = "TIMEOUT"

\* C7: a fetch whose cache read failed goes on to upstream; when upstream
\* answers with a body the service accepts and the cache write fails too, the
\* fetch returns success=true, cached=false with the record built from that
\* body, as on a miss against a working cache.
C7_CacheUnavailable ==
  \A p \in AllProcs :
    LET c == calls[p]
    IN (IsFetch(c) /\ c.pc \in {"done", "threw"} /\ c.cacheGet = "error") =>
         /\ c.httpCalls >= 1
         /\ (GoodBody(c) /\ c.cacheSet # "ok") =>
              /\ c.pc = "done" /\ c.cacheSet = "error"
              /\ c.env.success /\ ~c.env.cached
              /\ c.env.data = FreshData(c)

C7_Witness ==
  \E p \in AllProcs :
    /\ calls[p].pc = "done" /\ calls[p].cacheGet = "error" /\ calls[p].cacheSet = "error"
    /\ calls[p].env.success /\ calls[p].op = "getFormData"

\* A step in which the store call of caller p failed.
StoreFailed(p) ==
  /\ calls'[p].cacheCalls = calls[p].cacheCalls + 1
  /\ \/ calls[p].pc = "cacheGet" /\ calls'[p].cacheGet = "error"
     \/ calls[p].pc = "cacheSet" /\ calls'[p].cacheSet = "error"
     \/ calls[p].pc = "delete" /\ ~calls'[p].deleted[Len(calls'[p].deleted)][2]

\* C8: a failing store call raises nothing and changes nothing: the cache
\* read counts as a miss (the fetch goes to upstream), the cache write and the
\* deletion are no-ops after which the caller carries on (the fetch returns
\* its fresh envelope, clearCache goes to its next key or returns).
C8_CacheHelpersNeverRaise ==
  [][\A p \in AllProcs :
       StoreFailed(p) =>
         /\ cache' = cache
         /\ calls'[p].pc # "threw" /\ ~calls'[p].normalized
         /\ calls[p].pc = "cacheGet" => calls'[p].pc = "request"
         /\ calls[p].pc = "cacheSet" =>
              /\ calls'[p].pc = "done"
              /\ calls'[p].env.success /\ calls'[p].env.data = calls[p].data
         /\ calls[p].pc = "delete" =>
              /\ calls'[p].pending = Tail(calls[p].pending)
              /\ calls'[p].pc = IF Len(calls[p].pending) = 1 THEN "done" ELSE "delete"]_vars

C8_Witness ==
  \E p \in AllProcs :
    /\ calls[p].pc = "done" /\ calls[p].op = "admitClearCache"
    /\ Len(calls[p].deleted) = 3
    /\ ~calls[p].deleted[1][2] /\ calls[p].deleted[3][2]

\* C9: in getFormData and the GET variant of getAdmitCard, a 2xx body whose
\* success flag is false or whose data is absent gives a success=false
\* envelope with the body's message, or the fixed fallback when it has none;
\* handleApiError is not run and no cache write is made.
C9_UpstreamRefusal ==
  \A p \in AllProcs :
    LET c == calls[p]
    IN (/\ IsFetch(c) /\ UsesGet(c) /\ c.answered /\ c.body.t = "object"
        /\ ~Truthy(Read(c.body, "success")) \/ ~Truthy(Read(c.body, "data"))) =>
         /\ c.pc = "done"
         /\ c.env = [success |-> FALSE,
                     message |-> IF Truthy(Read(c.body, "message"))
                                 THEN Read(c.body, "message")
                                 ELSE Str("No data returned from BSEB API")]
         /\ ~c.normalized
         /\ c.cacheSet = "none"

C9_Witness ==
  \E p \in AllProcs :
    /\ calls[p].pc = "done" /\ calls[p].op = "getFormData"
    /\ calls[p].body = BodyRefused
    /\ calls[p].env = [success |-> FALSE, message |-> Str("x")]

\* C10: an admit-card request with neither a registration number nor a
\* complete roll pair makes no store call and no upstream call, and returns
\* success=false with the message that the identifier is required.
C10_MissingIdentifierRejected ==
  \A p \in AllProcs :
    LET c == calls[p]
    IN (/\ c.op = "getAdmitCard"
        /\ ~Truthy(c.dto.registrationNumber)
        /\ ~(Truthy(c.dto.rollCode) /\ Truthy(c.dto.rollNumber))) =>
         /\ c.cacheCalls = 0 /\ c.httpCalls = 0
         /\ c.pc = "done" =>
              c.env = [success |-> FALSE, message |-> Str("Registration number is required")]

\* The closed set of error codes of handleApiError.
ErrorCodes ==
  {"NOT_FOUND", "BAD_REQUEST", "UNAUTHORIZED", "SERVER_ERROR", "API_ERROR", "TIMEOUT",
   "UNAVAILABLE", "UNKNOWN_ERROR"}

\* The transformer of the call raises on the 2xx body the call received: the
\* body is null (its properties are read), or, in the POST variant, the
\* subject array holds a null element.
TransformRaises(c) ==
  c.answered /\ (IF UsesGet(c) THEN Nullish(c.body) ELSE postTransformThrows(c.body))

\* C11: no fetch ends by an exception; a fetch whose upstream request failed
\* for good (a 4xx, or every attempt used) or whose 2xx body made the
\* transformer raise has returned a success=false envelope carrying an error
\* code.
C11_FetchNeverThrows ==
  \A p \in AllProcs :
    LET c == calls[p]
    IN IsFetch(c) =>
         /\ c.pc # "threw"
         /\ (c.thrown # NoError \/ TransformRaises(c)) =>
              /\ c.pc = "done"
              /\ ~c.env.success
              /\ "errorCode" \in DOMAIN c.env /\ c.env.errorCode \in ErrorCodes

C11_Witness ==
  \E p \in AllProcs :
    /\ calls[p].pc = "done" /\ calls[p].op = "getAdmitCard" /\ variant = "POST"
    /\ calls[p].answered /\ calls[p].body = Null
    /\ ~calls[p].env.success /\ calls[p].env.errorCode = "UNKNOWN_ERROR"

\* C12: every returned envelope with success=false has no data property and
\* has a message that is neither missing nor empty.
C12_FailureHasMessageAndNoData ==
  \A p \in AllProcs :
    LET c == calls[p]
    IN (IsFetch(c) /\ c.pc = "done" /\ ~c.env.success) =>
         /\ "data" \notin DOMAIN c.env
         /\ "message" \in DOMAIN c.env
         /\ ~Nullish(c.env.message) /\ c.env.message # Str("")

C12_Witness ==
  \E p \in AllProcs :
    /\ calls[p].pc = "done" /\ calls[p].op = "getAdmitCard" /\ variant = "GET"
    /\ calls[p].body = BodyNoData
    /\ calls[p].env.message = Str("No data returned from BSEB API")

\* C13: a returned envelope says cached=true exactly when the call read its
\* data from the store and made no upstream call; a success envelope built
\* after an upstream call says cached=false.
C13_CachedIffFromStore ==
  \A p \in AllProcs :
    LET c == calls[p]
    IN (IsFetch(c) /\ c.pc = "done") =>
         /\ IsCached(c.env) <=> (c.cacheGet = "hit" /\ c.httpCalls = 0)
         /\ (c.env.success /\ c.httpCalls >= 1) =>
              "cached" \in DOMAIN c.env /\ c.env.cached = FALSE

C13_Witness ==
  \E p \in AllProcs :
    /\ calls[p].pc = "done" /\ calls[p].op = "getFormData"
    /\ calls[p].cacheGet = "miss" /\ calls[p].httpCalls = 2
    /\ calls[p].env.success /\ calls[p].env.cached = FALSE

\* C16 as stated: every returned envelope has success=true and data, or
\* success=false, a message and an error code of the taxonomy.
C16_EnvelopeWellFormed ==
  \A p \in AllProcs :
    LET c == calls[p]
    IN (IsFetch(c) /\ c.pc = "done") =>
         IF c.env.success
         THEN "data" \in DOMAIN c.env /\ Truthy(c.env.data)
         ELSE /\ "message" \in DOMAIN c.env /\ Truthy(c.env.message)
              /\ "errorCode" \in DOMAIN c.env /\ c.env.errorCode \in ErrorCodes

\* C16 amended: every returned envelope has success=true and data, or
\* success=false and a message; the envelopes built by handleApiError carry an
\* error code of the taxonomy, those of a rejected request and of an
\* upstream-reported failure carry the message only.
C16_EnvelopeHasDataOrMessage ==
  \A p \in AllProcs :
    LET c == calls[p]
    IN (IsFetch(c) /\ c.pc = "done") =>
         IF c.env.success
         THEN "data" \in DOMAIN c.env /\ Truthy(c.env.data)
         ELSE /\ "message" \in DOMAIN c.env /\ Truthy(c.env.message)
              /\ IF c.thrown # NoError \/ TransformRaises(c)
                 THEN "errorCode" \in DOMAIN c.env /\ c.env.errorCode \in ErrorCodes
                 ELSE DOMAIN c.env = {"success", "message"}

C16_Witness ==
  \E p \in AllProcs :
    /\ calls[p].pc = "done" /\ calls[p].op = "getFormData"
    /\ calls[p].body = BodyRefused /\ calls[p].cacheGet = "error"
    /\ calls[p].env = [success |-> FALSE, message |-> Str("x")]

\* C17: AdmitCardService.clearCache makes its store deletions in the order
\* prefix:identifier, prefix:theory:identifier, prefix:practical:identifier,
\* goes on after a failed one, never ends by an exception, and has attempted
\* all three when it returns.
C17_ClearCacheTriesAllThree ==
  \A p \in AllProcs :
    LET c == calls[p]
        keys == <<"bseb:admitcard:" \o c.identifier,
                  "bseb:admitcard:theory:" \o c.identifier,
                  "bseb:admitcard:practical:" \o c.identifier>>
    IN c.op = "admitClearCache" =>
         /\ c.pc \in {"delete", "done"}
         /\ Len(c.deleted) <= 3
         /\ \A i \in DOMAIN c.deleted : c.deleted[i][1] = keys[i]
         /\ c.pc = "done" <=> Len(c.deleted) = 3

C17_Witness ==
  \E p \in AllProcs :
    /\ calls[p].pc = "done" /\ calls[p].op = "admitClearCache"
    /\ Len(calls[p].deleted) = 3
    /\ ~calls[p].deleted[2][2] /\ calls[p].deleted[3][2]

\* C14: handleApiError classifies by the first test that matches, in the
\* order 404, 400, 401 or 403, >= 500, any other status with a response,
\* then (without a response) timeout, DNS failure or connection refused, and
\* UNKNOWN_ERROR for the rest; the code is one of the eight.
C14_ClassificationOrder ==
  \A p \in AllProcs :
    LET c == calls[p]
        e == c.error
    IN (c.op = "handleApiError" /\ c.pc = "done") =>
         /\ c.env.errorCode \in ErrorCodes
         /\ c.env.errorCode =
              IF e.isAxios /\ e.hasResponse
              THEN IF e.status = 404 THEN "NOT_FOUND"
                   ELSE IF e.status = 400 THEN "BAD_REQUEST"
                   ELSE IF e.status = 401 \/ e.status = 403 THEN "UNAUTHORIZED"
                   ELSE IF e.status >= 500 THEN "SERVER_ERROR"
                   ELSE "API_ERROR"
              ELSE IF e.isAxios /\ e.code = "ECONNABORTED" THEN "TIMEOUT"
              ELSE IF e.isAxios /\ (e.code = "ENOTFOUND" \/ e.code = "ECONNREFUSED")
                   THEN "UNAVAILABLE"
              ELSE "UNKNOWN_ERROR"

C14_Witness ==
  \E p \in AllProcs :
    /\ calls[p].op = "handleApiError" /\ calls[p].pc = "done"
    /\ calls[p].error = HttpError(500, Obj([message |-> Str("upstream says no")]))
    /\ calls[p].env.errorCode = "SERVER_ERROR"

\* The fixed messages of handleApiError for a context label.
SanitizedMessages(context) ==
  {Str("No record found for the given details."),
   Str("Invalid request parameters."),
   Str("Access denied to BSEB services."),
   Str("BSEB server error. Please try again later."),
   Str("Failed to fetch " \o context \o "."),
   Str("Request timed out. Please try again."),
   Str("BSEB server is currently unavailable. Please try again later."),
   Str("An unexpected error occurred. Please try again.")}

\* C15: the message of an envelope built by handleApiError is one of its
\* fixed messages, never text taken from the upstream response body.
C15_MessageIsSanitized ==
  \A p \in AllProcs :
    LET c == calls[p]
    IN (IsFetch(c) /\ c.pc = "done" /\ c.normalized) =>
         c.env.message \in SanitizedMessages(Context(c))

\* C18: getFieldValue(obj, k1..kn) is obj[ki] for the smallest i at which
\* obj[ki] is neither undefined nor null, and undefined when there is none;
\* the POST variant's transformer gives studentName "A" for student details
\* holding StudentName "A" and studentName "B", each time it is called.
C18_FirstDefinedKeyWins ==
  \A p \in AllProcs :
    LET c == calls[p]
    IN /\ (c.op = "getFieldValue" /\ c.pc = "done") =>
            LET hits == {i \in 1..Len(c.keys) : ~Nullish(Read(c.obj, c.keys[i]))}
            IN c.result = IF hits = {} THEN Undef
                          ELSE Read(c.obj, c.keys[CHOOSE i \in hits : \A j \in hits : i <= j])
       /\ c.op = "transformResponse" =>
            LET studentDetails ==
                  IF Truthy(Read(c.rawData, "StudentDetails"))
                  THEN Read(c.rawData, "StudentDetails") ELSE Read(c.rawData, "studentDetails")
            IN (/\ Read(studentDetails, "StudentName") = Str("A")
                /\ Read(studentDetails, "studentName") = Str("B")) =>
                 \A i \in DOMAIN c.results :
                   c.results[i].v.studentDetails.v.studentName = Str("A")

C18_Witness ==
  \E p \in AllProcs :
    /\ calls[p].op = "getFieldValue" /\ calls[p].pc = "done"
    /\ calls[p].obj = Obj([K1 |-> Str(""), K2 |-> Str("B")])
    /\ calls[p].keys = <<"K3", "K1">>
    /\ calls[p].result = Str("")

\* C20: every fetch that has been called returns an envelope, given that each
\* store round trip, upstream request and backoff wait completes.
C20_FetchReturns ==
  \A p \in AllProcs :
    (IsFetch(calls[p]) /\ calls[p].pc # "done") ~> (IsFetch(calls[p]) /\ calls[p].pc = "done")

C20_Witness ==
  \E p \in AllProcs :
    /\ calls[p].pc = "done" /\ calls[p].op = "getFormData"
    /\ calls[p].httpCalls = retryAttempts + 1 /\ Len(calls[p].delays) = retryAttempts
    /\ calls[p].errors = <<ErrorTimeout, ErrorTimeout, ErrorTimeout>>
    /\ calls[p].env.errorCode = "TIMEOUT"

\* C21: fetches of one key that all miss the cache each make their own
\* upstream call and their own cache write, and the entry under a key is the
\* normalized projection of the upstream response seen by the fetch that wrote
\* last.
C21_LastWriteWins ==
  /\ \A p \in AllProcs : \A q \in AllProcs \ {p} :
       LET c == calls[p]
       IN (/\ c.op = "getFormData" /\ calls[q].op = "getFormData"
           /\ c.cacheKey = calls[q].cacheKey
           /\ c.pc = "done" /\ calls[q].pc = "done"
           /\ c.cacheGet = "miss" /\ calls[q].cacheGet = "miss"
           /\ c.answered /\ calls[q].answered) =>
            c.httpCalls = 1 /\ c.cacheSet # "none" /\ c.cacheCalls = 2
  /\ \A k \in DOMAIN cache :
       cache[k].value.json =
         JsonValue(formTransformResponse(Read(cache[k].origin.body, "data")))

C21_Witness ==
  /\ \A p \in AllProcs :
       /\ calls[p].op = "getFormData" /\ calls[p].pc = "done" /\ calls[p].prevKind = "none"
       /\ calls[p].cacheGet = "miss" /\ calls[p].cacheSet = "ok"
  /\ calls[1].body = BodyFormA /\ calls[2].body = BodyFormB
  /\ cache[formCacheKey("R1")].origin.by = 1
  /\ cache[formCacheKey("R1")].value.json = JsonValue(calls[1].data)

\* C22: a fetch that its caller starts after the caller's clearCache of the same
\* registration number has completed (the deletion having succeeded) is never
\* served an entry whose data was read from upstream before that deletion.
C22_NoStaleEntryAfterClear ==
  [][\A p \in AllProcs :
       (/\ calls[p].pc = "cacheGet" /\ calls[p].prevKind = "clearOk"
        /\ calls'[p].pc = "done" /\ calls'[p].cacheGet = "hit") =>
         ~cache[calls[p].cacheKey].origin.preClear]_vars

\* The entries of the store change, in one step, only as the lifecycle allows:
\* an entry appears or gets a new value only by the cache write of a fetch
\* of that key that was answered by upstream, as the JSON text of the record
\* the fetch built; an entry disappears only by expiry or by the deletion of a
\* clearCache.
EntriesChangeByLifecycle ==
  /\ \A k \in DOMAIN cache' :
       (k \notin DOMAIN cache \/ cache'[k].value # cache[k].value) =>
         \E p \in AllProcs :
           /\ calls[p].pc = "cacheSet" /\ calls[p].cacheKey = k
           /\ calls[p].cacheGet \in {"miss", "error"} /\ calls[p].httpCalls >= 1
           /\ cache'[k].value = [json |-> JsonValue(calls[p].data)]
  /\ \A k \in (DOMAIN cache) \ (DOMAIN cache') :
       \/ \E p \in AllProcs : calls[p].pc = "delete" /\ Head(calls[p].pending) = k
       \/ \A p \in AllProcs : calls'[p].pc = calls[p].pc

\* C23 as stated: while an entry created by a fetch is in the store (its TTL
\* has not run out and no clearCache has run), every fetch of its key returns
\* cached=true with the entry's data; a fetch that finds no entry, or that
\* follows a clearCache of its identifier, calls upstream; entries change only
\* by full replacement after an upstream fetch.
C23_EntryServedUntilGone ==
  [][/\ \A p \in AllProcs :
          (calls[p].pc = "cacheGet" /\ calls'[p].pc # "cacheGet") =>
            IF calls[p].cacheKey \in DOMAIN cache
                 /\ calls[p].prevKind \notin {"clearOk", "clearFailed"}
            THEN /\ calls'[p].pc = "done" /\ IsCached(calls'[p].env)
                 /\ calls'[p].env.data = cache[calls[p].cacheKey].value.json
            ELSE calls'[p].pc = "request"
     /\ EntriesChangeByLifecycle]_vars

\* C23 amended: while an entry created by a fetch is in the store, every fetch
\* of its key whose cache read succeeds returns cached=true with the entry's
\* data; a fetch that finds no entry (after expiry or a deletion that
\* succeeded), or whose cache read fails, calls upstream; entries change only
\* by full replacement after an upstream fetch.
C23_ReadableEntryServedUntilGone ==
  [][/\ \A p \in AllProcs :
          (calls[p].pc = "cacheGet" /\ calls'[p].pc # "cacheGet") =>
            IF calls[p].cacheKey \in DOMAIN cache /\ calls'[p].cacheGet # "error"
            THEN /\ calls'[p].pc = "done" /\ IsCached(calls'[p].env)
                 /\ calls'[p].env.data = cache[calls[p].cacheKey].value.json
            ELSE calls'[p].pc = "request"
     /\ \A p \in AllProcs :
          (calls[p].pc = "cacheGet" /\ calls[p].prevKind = "clearOk") =>
            calls[p].cacheKey \notin DOMAIN cache
     /\ EntriesChangeByLifecycle]_vars

C23_Witness ==
  \E p \in AllProcs :
    /\ calls[p].pc = "done" /\ calls[p].op = "getFormData"
    /\ calls[p].prevKind = "fetchFresh" /\ calls[p].expired
    /\ calls[p].cacheGet = "miss" /\ calls[p].httpCalls = 1 /\ calls[p].cacheSet = "ok"
    /\ calls[p].cacheKey \in DOMAIN cache

\* Caller p's fetch takes a step (one of its awaits completes, or it is
\* called and returns at once).
FetchStep(p) == IsFetch(calls'[p]) /\ calls'[p].pc # calls[p].pc

\* C24: a step of a fetch changes the store only when it is the cache write
\* of a fetch whose upstream body was accepted and transformed, and that fetch
\* returns success=true; a fetch that returns success=false has made no cache
\* write and its return leaves the store as it was.
C24_FailedFetchLeavesCache ==
  [][\A p \in AllProcs :
       FetchStep(p) =>
         /\ cache' # cache =>
              /\ calls[p].pc = "cacheSet" /\ GoodBody(calls[p])
              /\ calls'[p].pc = "done" /\ calls'[p].env.success
         /\ (calls'[p].pc = "done" /\ ~calls'[p].env.success) =>
              cache' = cache /\ calls'[p].cacheSet = "none"]_vars

C24_Witness ==
  \E p \in AllProcs :
    /\ calls[p].pc = "done" /\ calls[p].op = "getAdmitCard"
    /\ calls[p].prevKind = "fetchFresh" /\ calls[p].cacheGet = "error"
    /\ calls[p].errors = <<Error500, Error404>> /\ ~calls[p].env.success
    /\ calls[p].cacheKey \in DOMAIN cache

\* The identifier strings the callers use.
IdentifierStrings ==
  RegistrationNumbers \cup AdmitIdentifiers \cup {getIdentifier(dto) : dto \in Dtos}

\* The keys that start with "bseb:form:", and those that start with
\* "bseb:admitcard:", over the identifiers above.
FormNamespace == {"bseb:form:" \o i : i \in IdentifierStrings}
AdmitNamespace ==
  {"bseb:admitcard:" \o sub \o i : sub \in {"", "theory:", "practical:"}, i \in IdentifierStrings}

\* The namespace of the service a call belongs to.
NamespaceOf(c) ==
  IF c.op \in {"getFormData", "formClearCache"} THEN FormNamespace ELSE AdmitNamespace

\* The keys at which two stores differ.
ChangedKeys(s, t) ==
  {k \in (DOMAIN s) \cup (DOMAIN t) : k \notin DOMAIN s \/ k \notin DOMAIN t \/ s[k] # t[k]}

\* C25: every key a call reads, writes or deletes lies in the namespace of its
\* own service, the two namespaces share no key, and a step of a call changes
\* the store at keys of its own namespace only.
C25_KeyNamespaces ==
  [][/\ FormNamespace \cap AdmitNamespace = {}
     /\ \A p \in AllProcs :
          LET c == calls'[p]
          IN c.pc # calls[p].pc =>
               /\ c.cacheCalls > 0 => c.cacheKey \in NamespaceOf(c) \/ ~IsFetch(c)
               /\ IsFetch(c) /\ c.pc # "done" => c.cacheKey \in NamespaceOf(c)
               /\ \A i \in DOMAIN c.deleted : c.deleted[i][1] \in NamespaceOf(c)
               /\ \A i \in DOMAIN c.pending : c.pending[i] \in NamespaceOf(c)
               /\ ChangedKeys(cache, cache') \subseteq NamespaceOf(c)]_vars

C25_Witness ==
  /\ formCacheKey("R1") \in DOMAIN cache
  /\ admitCacheKey(THEORY, "R1") \in DOMAIN cache
  /\ \E p \in AllProcs :
       /\ calls[p].pc = "done" /\ calls[p].op = "formClearCache"
       /\ calls[p].deleted = <<<<"bseb:form:R2", TRUE>>>>

\* The request names a roll code and a roll number and no registration number.
ByRollPair(dto) ==
  /\ dto.registrationNumber.t = "undefined"
  /\ dto.rollCode.t = "string" /\ dto.rollNumber.t = "string"

\* C26 as stated: a getAdmitCard call by roll code and roll number uses the
\* key prefix:type:rollCode-rollNumber and, once it has returned, has read the
\* cache and, unless that was a hit, called upstream; a call with a
\* registration number uses the key prefix:type:registrationNumber.
C26_RollPairIsLookedUp ==
  \A p \in AllProcs :
    LET c == calls[p]
    IN c.op = "getAdmitCard" /\ c.pc # "idle" =>
         /\ ByRollPair(c.dto) =>
              /\ c.pc = "done" => c.cacheCalls = 1 /\ (c.cacheGet = "hit" \/ c.httpCalls > 0)
              /\ c.cacheKey =
                   "bseb:admitcard:" \o c.type \o ":" \o c.dto.rollCode.v \o "-" \o c.dto.rollNumber.v
         /\ c.dto.registrationNumber.t = "string" =>
              c.cacheKey = "bseb:admitcard:" \o c.type \o ":" \o c.dto.registrationNumber.v

\* Two requests identify the same record: the same registration number, or,
\* neither naming one, the same roll code and roll number.
SameLookup(d1, d2) ==
  IF d1.registrationNumber.t = "string" /\ d2.registrationNumber.t = "string"
  THEN d1.registrationNumber = d2.registrationNumber
  ELSE /\ ByRollPair(d1) /\ ByRollPair(d2)
       /\ d1.rollCode = d2.rollCode /\ d1.rollNumber = d2.rollNumber

\* C27 as stated: a getAdmitCard call that is served from the cache is served
\* an entry written by a call that identified the same record.
C27_HitIsOwnLookup ==
  [][\A p \in AllProcs :
       /\ calls[p].pc = "cacheGet" /\ calls[p].op = "getAdmitCard"
       /\ calls'[p].cacheGet = "hit"
       => SameLookup(cache[calls[p].cacheKey].origin.dto, calls[p].dto)]_vars

\* C28: executeWithRetry makes at most retryAttempts + 1 requests; the step in
\* which a request is answered leaves the loop (no wait, no further request)
\* with that answer's body, whatever number of attempts failed before it, and
\* an answered call has made one request more than it saw failures, with one
\* wait per failure.
C28_AtMostAllAttemptsAndStopAtSuccess ==
  [][\A p \in AllProcs :
       LET c == calls'[p]
       IN IsFetch(c) =>
            /\ c.httpCalls <= retryAttempts + 1
            /\ c.answered =>
                 /\ c.pc \in {"cacheSet", "done"}
                 /\ c.httpCalls = Len(c.errors) + 1
                 /\ Len(c.delays) = Len(c.errors)
            /\ c.answered /\ calls[p].pc = "request" =>
                 /\ c.httpCalls = calls[p].httpCalls + 1
                 /\ c.delays = calls[p].delays /\ c.errors = calls[p].errors
                 /\ c.body \in FormBodies \cup AdmitBodies
            /\ calls[p].answered /\ IsFetch(calls[p]) /\ calls[p].pc # "done" =>
                 c.httpCalls = calls[p].httpCalls /\ c.delays = calls[p].delays]_vars

C28_Witness ==
  \E p \in AllProcs :
    /\ calls[p].pc = "done" /\ calls[p].op = "getFormData"
    /\ calls[p].errors = <<Error500, ErrorTimeout>>
    /\ calls[p].answered /\ calls[p].httpCalls = 3
    /\ calls[p].delays = <<1000, 2000>>
    /\ calls[p].env.success

\* C29: a call has waited and warned once per retry: as many times as it has
\* re-entered the loop, plus one while it waits; the k-th warning carries k;
\* and the step in which the last attempt fails adds no wait and no warning,
\* the error leaving the loop in that step.
C29_DelayAndWarningPerRetry ==
  [][\A p \in AllProcs :
       LET c == calls'[p]
           retries == IF c.pc = "delay" THEN c.attempt + 1 ELSE c.attempt
       IN IsFetch(c) =>
            /\ Len(c.delays) = retries /\ Len(c.warnings) = retries
            /\ \A k \in DOMAIN c.warnings : c.warnings[k] = k
            /\ c.pc = "done" /\ c.httpCalls > 0 => retries = c.httpCalls - 1
            /\ calls[p].pc = "request" /\ c.pc = "done" /\ ~c.answered =>
                 /\ c.delays = calls[p].delays /\ c.warnings = calls[p].warnings
                 /\ c.thrown = c.errors[Len(c.errors)]]_vars

C29_Witness ==
  \E p \in AllProcs :
    /\ calls[p].pc = "done" /\ calls[p].op = "getAdmitCard"
    /\ ~calls[p].answered /\ calls[p].httpCalls = 3
    /\ calls[p].errors = <<ErrorTimeout, Error500, Error500>>
    /\ calls[p].warnings = <<1, 2>> /\ Len(calls[p].delays) = 2
    /\ ~calls[p].env.success

\* C30: every entry of the store under a form-data key has a TTL of 86400
\* seconds and every entry under an admit-card key one of 3600 seconds, each
\* write of a fetch sets the TTL of its service, and a fetch served from the
\* store leaves the store, TTLs included, as it was.
C30_TtlPerDomain ==
  [][/\ \A k \in DOMAIN cache' :
          /\ k \in FormNamespace => cache'[k].ttl = 86400
          /\ k \in AdmitNamespace => cache'[k].ttl = 3600
          /\ k \in FormNamespace \cup AdmitNamespace
     /\ \A p \in AllProcs :
          /\ calls[p].pc = "cacheSet" /\ calls'[p].cacheSet = "ok" =>
               /\ calls[p].cacheKey \in DOMAIN cache'
               /\ cache'[calls[p].cacheKey].ttl =
                    IF calls[p].op = "getFormData" THEN 86400 ELSE 3600
          /\ calls[p].pc = "cacheGet" /\ calls'[p].cacheGet = "hit" => cache' = cache]_vars

C30_Witness ==
  /\ "bseb:form:R1" \in DOMAIN cache /\ cache["bseb:form:R1"].ttl = 86400
  /\ "bseb:admitcard:practical:R1" \in DOMAIN cache
  /\ cache["bseb:admitcard:practical:R1"].ttl = 3600
  /\ \E p \in AllProcs :
       /\ calls[p].pc = "done" /\ calls[p].op = "getAdmitCard"
       /\ calls[p].type = PRACTICAL /\ calls[p].cacheGet = "hit"

\* The upstream keys each normalized field is taken from: of a FormData
\* record, of its address, of the student details and of a subject of a POST
\* AdmitCard record, and of the student details of a GET AdmitCard record.
FormFieldKeys ==
  [schoolCode |-> <<"school_code">>, schoolName |-> <<"school_name">>,
   registrationNumber |-> <<"reg_no">>, applicationNumber |-> <<"application_no">>,
   name |-> <<"name">>, fatherName |-> <<"father_name">>, motherName |-> <<"mother_name">>,
   dateOfBirth |-> <<"dob">>, gender |-> <<"gender">>, caste |-> <<"caste">>,
   category |-> <<"category">>, religion |-> <<"religion">>, nationality |-> <<"nationality">>,
   area |-> <<"area">>, isDifferentlyAbled |-> <<"is_differently_abled">>,
   isVisuallyImpaired |-> <<"is_visually_impaired">>, maritalStatus |-> <<"marital_status">>,
   medium |-> <<"medium">>, mobile |-> <<"mobile">>, email |-> <<"email">>,
   photoUrl |-> <<"photo">>, signatureUrl |-> <<"sign">>]
AddressFieldKeys ==
  [city |-> <<"city">>, address |-> <<"address">>, pincode |-> <<"pincode">>,
   district |-> <<"district">>, state |-> <<"state">>]
PostStudentKeys ==
  [studentName |-> <<"StudentName", "studentName">>, fatherName |-> <<"FatherName", "fatherName">>,
   motherName |-> <<"MotherName", "motherName">>, dateOfBirth |-> <<"DateOfBirth", "dateOfBirth">>,
   gender |-> <<"Gender", "gender">>,
   registrationNumber |-> <<"RegistrationNumber", "registrationNumber">>,
   rollCode |-> <<"Rollcode", "RollCode", "rollcode", "rollCode">>,
   rollNumber |-> <<"RollNumber", "rollNumber">>, schoolName |-> <<"SchoolName", "schoolName">>,
   schoolCode |-> <<"SchoolCode", "schoolCode">>,
   casteCategory |-> <<"casteCategory", "CasteCategory">>, religion |-> <<"Religion", "religion">>,
   examType |-> <<"ExamType", "examType">>,
   examCenterName |-> <<"ExamCenterName", "examCenterName">>,
   examCenterCode |-> <<"ExamCenterCode", "examCenterCode">>]
PostSubjectKeys ==
  [subjectName |-> <<"SubjectName", "subjectName">>, subjectCode |-> <<"SubjectCode", "subjectCode">>,
   subjectGroup |-> <<"SubjectGroup", "subjectGroup">>, examDate |-> <<"ExamDate", "examDate">>,
   examTime |-> <<"ExamTime", "examTime">>, examShift |-> <<"ExamShift", "examShift">>]
GetStudentKeys ==
  [studentName |-> <<"name">>, fatherName |-> <<"father_name">>, motherName |-> <<"mother_name">>,
   dateOfBirth |-> <<"dob">>, gender |-> <<"gender">>, registrationNumber |-> <<"reg_no">>,
   rollCode |-> <<"roll_code">>, rollNumber |-> <<"roll_no">>, schoolName |-> <<"school_name">>,
   schoolCode |-> <<"school_code">>, casteCategory |-> <<"category">>, religion |-> <<"religion">>,
   examCenterName |-> <<"exam_center_name", "school_name">>,
   examCenterCode |-> <<"exam_center_code", "school_code">>]

\* None of the keys holds a value that is neither undefined nor null.
NoneDefined(obj, keys) == \A i \in DOMAIN keys : Nullish(Read(obj, keys[i]))

\* None of the keys holds a truthy value.
NoneTruthy(obj, keys) == \A i \in DOMAIN keys : ~Truthy(Read(obj, keys[i]))

\* In the record (or nested object) out, made from raw by the key table, every
\* field whose keys hold no value is undefined or null, hence no empty string.
UnsetLeftUnset(out, raw, table) ==
  \A f \in DOMAIN table : NoneDefined(raw, table[f]) => Nullish(Read(out, f))

\* The student details and the subject array the POST transformer reads.
RawStudentDetails(rawData) ==
  IF Truthy(Read(rawData, "StudentDetails")) THEN Read(rawData, "StudentDetails")
  ELSE IF Truthy(Read(rawData, "studentDetails")) THEN Read(rawData, "studentDetails")
  ELSE EmptyObj
RawSubjectDetails(rawData) ==
  IF Truthy(Read(rawData, "SubjectDetails")) THEN Read(rawData, "SubjectDetails")
  ELSE IF Truthy(Read(rawData, "subjectDetails")) THEN Read(rawData, "subjectDetails")
  ELSE Arr(<<>>)

\* The FormData part of C31: top-level and address fields.
FormUnsetLeftUnset(c) ==
  /\ UnsetLeftUnset(c.result, c.raw, FormFieldKeys)
  /\ Read(c.result, "address").t = "object" =>
       UnsetLeftUnset(Read(c.result, "address"), Read(c.raw, "address"), AddressFieldKeys)
  /\ \A slot \in {"mil", "sil", "optional", "vocational"} :
       LET out == Read(Read(c.result, "subjects"), slot)
           in == Read(Read(c.raw, "subjects"), slot)
       IN out.t = "object" =>
            UnsetLeftUnset(out, in, [name |-> <<"name">>, code |-> <<"code">>])

\* The POST AdmitCard part of C31: student details and each subject.
PostUnsetLeftUnset(c) ==
  \A i \in DOMAIN c.results :
    /\ UnsetLeftUnset(Read(c.results[i], "studentDetails"), RawStudentDetails(c.rawData),
                      PostStudentKeys)
    /\ \A j \in DOMAIN Read(c.results[i], "subjectDetails").v :
         UnsetLeftUnset(Read(c.results[i], "subjectDetails").v[j],
                        RawSubjectDetails(c.rawData).v[j], PostSubjectKeys)

\* C31 as stated: in the records of all three transformers a field whose keys
\* hold no value is left unset, never ''.
C31_UnsetFieldsLeftUnset ==
  \A p \in AllProcs :
    LET c == calls[p]
    IN /\ c.op = "formTransformResponse" /\ c.pc = "done" => FormUnsetLeftUnset(c)
       /\ c.op = "transformResponse" => PostUnsetLeftUnset(c)
       /\ c.op = "getTransformResponse" =>
            \A r \in {c.theory, c.practical} :
              r # Undef => UnsetLeftUnset(Read(r, "studentDetails"), c.rawData, GetStudentKeys)

\* C31 amended: that holds of the FormData record and of the POST variant's
\* AdmitCard record; the GET variant's AdmitCard record holds '' in every
\* student field none of whose keys is truthy, in photoUrl likewise, in
\* subjectCode of a subject without code, and in examDate, examTime, examShift.
C31_UnsetLeftUnsetButGetVariantBlank ==
  \A p \in AllProcs :
    LET c == calls[p]
    IN /\ c.op = "formTransformResponse" /\ c.pc = "done" => FormUnsetLeftUnset(c)
       /\ c.op = "transformResponse" => PostUnsetLeftUnset(c)
       /\ c.op = "getTransformResponse" =>
            \A r \in {c.theory, c.practical} \ {Undef} :
              /\ \A f \in DOMAIN GetStudentKeys :
                   NoneTruthy(c.rawData, GetStudentKeys[f]) =>
                     Read(Read(r, "studentDetails"), f) = Str("")
              /\ ~Truthy(Read(c.rawData, "photo")) => Read(r, "photoUrl") = Str("")
              /\ \A j \in DOMAIN Read(r, "subjectDetails").v :
                   LET sub == Read(r, "subjectDetails").v[j]
                   IN /\ Read(sub, "examDate") = Str("") /\ Read(sub, "examTime") = Str("")
                      /\ Read(sub, "examShift") = Str("")
                      /\ Read(sub, "subjectCode").t = "string"

C31_Witness ==
  /\ \E p \in AllProcs :
       /\ calls[p].op = "transformResponse" /\ calls[p].rawData = EmptyObj
       /\ Len(calls[p].results) = 1
       /\ Read(Read(calls[p].results[1], "studentDetails"), "studentName") = Undef

\* The raw record the transformer of a fetch was handed: the data of the
\* upstream envelope (getFormData, GET variant) or the body (POST variant).
RawPayload(c) == IF UsesGet(c) THEN Read(c.body, "data") ELSE c.body

\* The record of a successful getFormData holds the raw record under rawData:
\* the one just received, or, on a hit, the one stored with the entry.
FormRecordHasRaw(c) ==
  /\ Read(c.env.data, "rawData").t = "object"
  /\ c.answered => Read(c.env.data, "rawData") = RawPayload(c)

\* C32 as stated: every record returned with success=true, by getFormData and
\* by getAdmitCard, holds the raw upstream record it was made from.
C32_RecordCarriesRawPayload ==
  \A p \in AllProcs :
    LET c == calls[p]
    IN (IsFetch(c) /\ c.pc = "done" /\ c.env.success) =>
         /\ Read(c.env.data, "rawData") # Undef
         /\ c.answered => Read(c.env.data, "rawData") = RawPayload(c)

\* C32 amended: a record returned by getFormData holds the raw record under
\* rawData; a record returned by getAdmitCard, in either variant, has no
\* rawData and no other field holding the raw record.
C32_OnlyFormRecordCarriesRawPayload ==
  \A p \in AllProcs :
    LET c == calls[p]
    IN (IsFetch(c) /\ c.pc = "done" /\ c.env.success) =>
         IF c.op = "getFormData" THEN FormRecordHasRaw(c)
         ELSE /\ "rawData" \notin DOMAIN c.env.data.v
              /\ c.answered => \A f \in DOMAIN c.env.data.v : c.env.data.v[f] # RawPayload(c)

C32_Witness ==
  \E p \in AllProcs :
    /\ calls[p].pc = "done" /\ calls[p].op = "getFormData"
    /\ calls[p].env.success /\ calls[p].env.cached /\ calls[p].prevKind = "fetchFresh"
    /\ Read(calls[p].env.data, "rawData") = Read(BodyFormA, "data")
    /\ Read(calls[p].prevEnv.data, "rawData") = Read(BodyFormA, "data")

\* The subject slots of a FormData record and the raw keys they are read from.
SlotKeys ==
  [mil |-> "mil", sil |-> "sil", optional |-> "optional", vocational |-> "vocational",
   compulsory1 |-> "compulsory_1", compulsory2 |-> "compulsory_2",
   compulsory3 |-> "compulsory_3", compulsory4 |-> "compulsory_4"]

\* out is undefined when the raw nested value is absent, an object otherwise.
AllOrNothing(out, in) == IF Truthy(in) THEN out.t = "object" ELSE out = Undef

\* The FormData part of C33: address, subjects and each subject slot are
\* undefined when absent from the raw record; a present slot keeps the
\* upstream is_checked and readonly, and gets false and true exactly where
\* upstream holds null or undefined.
FormNestedAllOrNothing(c) ==
  /\ AllOrNothing(Read(c.result, "address"), Read(c.raw, "address"))
  /\ AllOrNothing(Read(c.result, "subjects"), Read(c.raw, "subjects"))
  /\ Truthy(Read(c.raw, "subjects")) =>
       \A slot \in DOMAIN SlotKeys :
         LET in == Read(Read(c.raw, "subjects"), SlotKeys[slot])
             out == Read(Read(c.result, "subjects"), slot)
         IN /\ AllOrNothing(out, in)
            /\ Truthy(in) =>
                 /\ Read(out, "isChecked") =
                      IF Nullish(Read(in, "is_checked")) THEN Bool(FALSE) ELSE Read(in, "is_checked")
                 /\ Read(out, "readonly") =
                      IF Nullish(Read(in, "readonly")) THEN Bool(TRUE) ELSE Read(in, "readonly")

\* The raw record handed to the POST transformer has no student details.
LacksStudentDetails(rawData) ==
  ~Truthy(Read(rawData, "StudentDetails")) /\ ~Truthy(Read(rawData, "studentDetails"))

\* C33 as stated: the above, and the POST variant's AdmitCard record holds
\* undefined for the student details when the raw record has none.
C33_NestedAllOrNothing ==
  \A p \in AllProcs :
    LET c == calls[p]
    IN /\ c.op = "formTransformResponse" /\ c.pc = "done" => FormNestedAllOrNothing(c)
       /\ c.op = "transformResponse" /\ LacksStudentDetails(c.rawData) =>
            \A i \in DOMAIN c.results : Read(c.results[i], "studentDetails") = Undef

\* C33 amended: the FormData part as stated; the POST variant's AdmitCard
\* record always holds an object for the student details, every field of it
\* undefined when the raw record has none.
C33_FormNestedAllOrNothing ==
  \A p \in AllProcs :
    LET c == calls[p]
    IN /\ c.op = "formTransformResponse" /\ c.pc = "done" => FormNestedAllOrNothing(c)
       /\ c.op = "transformResponse" =>
            \A i \in DOMAIN c.results :
              LET out == Read(c.results[i], "studentDetails")
              IN /\ out.t = "object"
                 /\ LacksStudentDetails(c.rawData) =>
                      /\ DOMAIN out.v = DOMAIN PostStudentKeys
                      /\ \A f \in DOMAIN out.v : out.v[f] = Undef

C33_Witness ==
  \E p \in AllProcs :
    /\ calls[p].op = "formTransformResponse" /\ calls[p].pc = "done"
    /\ calls[p].raw = RawFormExplicit
    /\ Read(calls[p].result, "address") = Undef
    /\ Read(Read(calls[p].result, "subjects"), "optional") = Undef
    /\ Read(Read(Read(calls[p].result, "subjects"), "vocational"), "readonly") = Bool(FALSE)
    /\ Read(Read(Read(calls[p].result, "subjects"), "compulsory2"), "isChecked") = Bool(FALSE)

\* The subject slots in the order the GET variant lists them, and the group
\* label of each.
SlotOrder ==
  <<"mil", "sil", "compulsory_1", "compulsory_2", "compulsory_3", "compulsory_4",
    "optional", "vocational">>
GroupLabel ==
  [mil |-> "mil", sil |-> "sil", compulsory_1 |-> "compulsory 1", compulsory_2 |-> "compulsory 2",
   compulsory_3 |-> "compulsory 3", compulsory_4 |-> "compulsory 4", optional |-> "optional",
   vocational |-> "vocational"]

\* The positions in SlotOrder of the slots that are present with a non-empty name.
NamedSlots(rawData) ==
  {i \in DOMAIN SlotOrder :
     /\ Truthy(Read(Read(rawData, "subjects"), SlotOrder[i]))
     /\ Truthy(Read(Read(Read(rawData, "subjects"), SlotOrder[i]), "name"))}

\* seq lists the named slots of rawData, each once, in the order of SlotOrder,
\* with the slot's name and group and blank exam date, time and shift.
ListsNamedSlots(seq, rawData) ==
  /\ Len(seq) = Cardinality(NamedSlots(rawData))
  /\ \A j \in DOMAIN seq :
       /\ Read(seq[j], "examDate") = Str("") /\ Read(seq[j], "examTime") = Str("")
       /\ Read(seq[j], "examShift") = Str("")
       /\ \E i \in NamedSlots(rawData) :
            /\ Cardinality({h \in NamedSlots(rawData) : h < i}) = j - 1
            /\ Read(seq[j], "subjectGroup") = Str(GroupLabel[SlotOrder[i]])
            /\ Read(seq[j], "subjectName") =
                 Read(Read(Read(rawData, "subjects"), SlotOrder[i]), "name")

\* C38: the GET variant's theory and practical records of one raw record are
\* equal but for examType, which is 'Theory' and 'Practical'; subjectDetails
\* lists exactly the slots present with a non-empty name, in slot order, each
\* with blank examDate, examTime and examShift.
C38_TheoryAndPracticalDifferInExamType ==
  \A p \in AllProcs :
    LET c == calls[p]
    IN c.op = "getTransformResponse" =>
         /\ \A r \in {c.theory, c.practical} \ {Undef} :
              ListsNamedSlots(Read(r, "subjectDetails").v, c.rawData)
         /\ c.theory # Undef =>
              Read(Read(c.theory, "studentDetails"), "examType") = Str("Theory")
         /\ c.practical # Undef =>
              Read(Read(c.practical, "studentDetails"), "examType") = Str("Practical")
         /\ c.theory # Undef /\ c.practical # Undef =>
              /\ DOMAIN c.theory.v = DOMAIN c.practical.v
              /\ \A f \in DOMAIN c.theory.v \ {"studentDetails"} : c.theory.v[f] = c.practical.v[f]
              /\ DOMAIN c.theory.v.studentDetails.v = DOMAIN c.practical.v.studentDetails.v
              /\ \A f \in DOMAIN c.theory.v.studentDetails.v \ {"examType"} :
                   c.theory.v.studentDetails.v[f] = c.practical.v.studentDetails.v[f]

C38_Witness ==
  \E p \in AllProcs :
    /\ calls[p].op = "getTransformResponse" /\ calls[p].rawData = RawFormExplicit
    /\ calls[p].theory # Undef /\ calls[p].practical # Undef
    /\ Len(Read(calls[p].theory, "subjectDetails").v) = 2
    /\ Read(Read(calls[p].practical, "subjectDetails").v[1], "subjectGroup") = Str("compulsory 2")
    /\ Read(Read(calls[p].practical, "subjectDetails").v[2], "subjectName") = Str("IT")

\* C34: a step of a getAdmitCard call of type T for identifier I changes the
\* store at most under prefix:T:I, so the entry of the other type stays as it
\* is, and the entry the call is served from was written by a call of type T.
C34_TheoryAndPracticalIndependent ==
  [][\A p \in AllProcs :
       (calls'[p].op = "getAdmitCard" /\ calls'[p].pc # calls[p].pc) =>
         LET c == calls'[p]
             own == "bseb:admitcard:" \o c.type \o ":" \o c.identifier
             other == "bseb:admitcard:" \o (IF c.type = THEORY THEN PRACTICAL ELSE THEORY)
                        \o ":" \o c.identifier
         IN /\ ChangedKeys(cache, cache') \subseteq {own}
            /\ other \in DOMAIN cache => other \in DOMAIN cache' /\ cache'[other] = cache[other]
            /\ calls[p].pc = "cacheSet" /\ c.cacheSet = "ok" => own \in DOMAIN cache'
            /\ calls[p].pc = "cacheGet" /\ c.cacheGet = "hit" =>
                 /\ own \in DOMAIN cache /\ cache[own].origin.type = c.type
                 /\ c.env.data = JsonParse(cache[own].value)]_vars

C34_Witness ==
  \E p \in AllProcs :
    /\ calls[p].pc = "done" /\ calls[p].op = "getAdmitCard" /\ calls[p].type = PRACTICAL
    /\ calls[p].identifier = "R1"
    /\ calls[p].cacheGet = "miss" /\ calls[p].cacheSet = "ok"
    /\ "bseb:admitcard:theory:R1" \in DOMAIN cache
    /\ "bseb:admitcard:practical:R1" \in DOMAIN cache
    /\ cache["bseb:admitcard:theory:R1"].origin.type = THEORY

\* C36: a fetch that has returned made no upstream request if it was rejected
\* or served from the store, exactly one if its first request was answered 2xx
\* or 4xx, and otherwise at least two; no fetch ever makes more than
\* retryAttempts + 1.
C36_UpstreamCallsPerFetch ==
  \A p \in AllProcs :
    LET c == calls[p]
    IN IsFetch(c) =>
         /\ c.httpCalls <= retryAttempts + 1
         /\ c.pc = "done" =>
              IF c.cacheCalls = 0 \/ c.cacheGet = "hit" THEN c.httpCalls = 0
              ELSE IF c.errors = <<>> \/ Is4xx(c.errors[1]) THEN c.httpCalls = 1
              ELSE c.httpCalls >= 2

C36_Witness ==
  \E p \in AllProcs :
    /\ calls[p].pc = "done" /\ calls[p].op = "getFormData"
    /\ calls[p].errors = <<ErrorTimeout, Error400>>
    /\ calls[p].httpCalls = 2 /\ ~calls[p].env.success

\* C35 as stated: a deletion made by clearCache(I) removes no entry but one
\* written by a fetch of the same service for the identifier I.
C35_ClearCacheSparesOtherIdentifiers ==
  [][\A p \in AllProcs :
       calls[p].pc = "delete" =>
         \A k \in DOMAIN cache \ DOMAIN cache' :
           /\ cache[k].origin.identifier = calls[p].identifier
           /\ cache[k].origin.op =
                IF calls[p].op = "formClearCache" THEN "getFormData" ELSE "getAdmitCard"]_vars

\* The subject array of the body holds null or undefined.
HasNullSubject(body) ==
  /\ RawSubjectDetails(body).t = "array"
  /\ \E i \in DOMAIN RawSubjectDetails(body).v : Nullish(RawSubjectDetails(body).v[i])

\* A POST-variant fetch answered with body: it returned success=true,
\* cached=false and tried to store the record, and the caller's next fetch of
\* the key, the entry being stored, readable and not expired, is a hit with
\* the same data.
AcceptedAndCached(c) ==
  /\ c.answered /\ c.pc = "done" =>
       c.env.success /\ ~c.env.cached /\ c.cacheSet \in {"ok", "error"}
  /\ (c.pc = "done" /\ c.prevKind = "fetchFresh" /\ c.cacheGet # "error" /\ ~c.expired) =>
       c.env.success /\ c.env.cached /\ c.httpCalls = 0 /\ SameData(c.env.data, c.prevEnv.data)

\* C37 as stated: in the POST variant every 2xx body that is a non-null
\* object is accepted, returned with success=true and cached.
C37_AnyObjectBodyIsCached ==
  \A p \in AllProcs :
    LET c == calls[p]
    IN (c.op = "getAdmitCard" /\ variant = "POST" /\ (c.answered => c.body.t = "object")) =>
         AcceptedAndCached(c)

\* C37 amended: that holds of every 2xx body that is a non-null object whose
\* subject array holds no null or undefined element, the empty object and an
\* upstream refusal included; a body with such an element is answered with
\* success=false and nothing is stored.
C37_ObjectBodyWithoutNullSubjectIsCached ==
  \A p \in AllProcs :
    LET c == calls[p]
    IN (c.op = "getAdmitCard" /\ variant = "POST" /\ (c.answered => c.body.t = "object")) =>
         IF c.answered /\ HasNullSubject(c.body)
         THEN c.pc = "done" => ~c.env.success /\ c.cacheSet = "none"
         ELSE AcceptedAndCached(c)

C37_Witness ==
  \E p \in AllProcs :
    /\ calls[p].pc = "done" /\ calls[p].op = "getAdmitCard" /\ variant = "POST"
    /\ calls[p].prevKind = "fetchFresh" /\ calls[p].cacheGet = "hit"
    /\ calls[p].env.success /\ calls[p].env.cached
    /\ cache[calls[p].cacheKey].origin.body = BodyAdmitRefused

====
